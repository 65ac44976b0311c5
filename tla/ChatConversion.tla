------------------------------ MODULE ChatConversion ------------------------------
(***************************************************************************)
(* The conversion between the Responses API, which the client speaks, and  *)
(* the Chat Completions API of the upstream (mcptap/chat_completions.py,   *)
(* upstream.py, responses.py).                                             *)
(*                                                                         *)
(* One conversation is held by two clients at once: one sends all its      *)
(* items with every request, the other sends previous_response_id and what *)
(* is new.  The upstream streams its answer in fragments; text and         *)
(* arguments are sequences of fragments, each of length 1.  Of the model's *)
(* reasoning (reasoning_content) only whether there is any is modelled.    *)
(***************************************************************************)
EXTENDS Integers, FiniteSets, Sequences, FiniteSetsExt, SequencesExt

CONSTANTS
  MaxChars,     (* CHAT_MAX_CHARS                                           *)
  Lengths,      (* lengths of what a user says                              *)
  MaxPosts,     (* bound: requests of the conversation                      *)
  MaxCalls,     (* bound: tool calls of an answer                           *)
  MaxDeltas,    (* bound: fragments of the answers                          *)
  MaxOutputs,   (* bound: outputs the client sends for its calls            *)
  PerModel      (* the model has instructions of its own                    *)

ASSUME BoundsAssumption ==
  /\ {MaxPosts, MaxCalls, MaxDeltas, MaxOutputs} \subseteq Nat
  /\ MaxChars \in Nat \ {0} /\ Lengths \subseteq Nat /\ PerModel \in BOOLEAN

VARIABLES
  phase,     (* client or stream                                            *)
  items,     (* all items of the conversation, at the client                *)
  fresh,     (* those since the last response                               *)
  stored,    (* the history stored for that response                        *)
  resent,    (* the messages posted for the client that resends its items   *)
  chained,   (* those posted for the other                                  *)
  agg,       (* what chat_sse_to_responses has gathered                     *)
  answer,    (* the output of the last response                             *)
  sent,      (* history: how many fragments of what the upstream has sent   *)
  posts,     (* requests so far                                             *)
  plain      (* history: nothing the two clients may differ by has happened *)

client == <<items, fresh>>
proxy == <<stored, resent, chained>>
vars == <<phase, client, proxy, agg, answer, sent, posts, plain>>

Fragments(n) == [i \in 1..n |-> i]
Indices == 1..MaxCalls

(* An item: what a user or the model says, a call, its output; "other" is an *)
(* item of reasoning or a compaction, which is no message of a Chat.  What   *)
(* the model says or calls may come with its reasoning.                      *)
Item(type, id, body, thought) == [type |-> type, id |-> id, body |-> body, thought |-> thought]
ChatMessage(role, id, body, calls, thought) ==
  [role |-> role, id |-> id, body |-> body, calls |-> calls, thought |-> thought]
Call(id, body) == [id |-> id, body |-> body]

(* Ids of calls: the post, who gave it and the index.  The upstream gave it, *)
(* or the conversion minted it for the store (1) or the client (2).         *)
NoId == <<0, 0, 0>>
GivenId(i) == <<posts, 0, i>>
MintedId(origin, i) == <<posts, origin, i>>

NoItem == Item("none", NoId, <<>>, FALSE)

Positions(seq, type) == {i \in DOMAIN seq : seq[i].type = type}
Ids(seq, type) == {seq[i].id : i \in Positions(seq, type)}

(* What seq has at the positions of a set, in order: SelectSeq, without a    *)
(* recursion.                                                               *)
Pick(seq, positions) ==
  [k \in 1..Cardinality(positions) |->
     seq[CHOOSE i \in positions : Cardinality({j \in positions : j <= i}) = k]]

(* The sum of some sizes, as a number of pairs. *)
SumAt(sizes, positions) == Cardinality(UNION {{i} \X (1..sizes[i]) : i \in positions})

-----------------------------------------------------------------------------
(* From Responses to Chat.                                                  *)

(* Slip: the first output wins. *)
RepairKeepingFirst(input) ==
  LET Superseded(i) == \E j \in Positions(input, "output") : j < i /\ input[j].id = input[i].id
      Orphan(i) == /\ input[i].id \notin Ids(input, "output")
                   /\ \A j \in Positions(input, "call") : j < i => input[j].id # input[i].id
      deduped == Pick(input, {i \in DOMAIN input : input[i].type = "output" => ~ Superseded(i)})
      missing == Pick(input, {i \in Positions(input, "call") : Orphan(i)})
  IN deduped \o [k \in DOMAIN missing |-> Item("output", missing[k].id, <<0>>, FALSE)]

(* _repair_function_call_pairs: of several outputs of a call the last stays,*)
(* a call without one gets one, at the end.                                 *)
Repair(input) ==
  LET Superseded(i) == \E j \in Positions(input, "output") : j > i /\ input[j].id = input[i].id
      Orphan(i) == /\ input[i].id \notin Ids(input, "output")
                   /\ \A j \in Positions(input, "call") : j < i => input[j].id # input[i].id
      deduped == Pick(input, {i \in DOMAIN input : input[i].type = "output" => ~ Superseded(i)})
      missing == Pick(input, {i \in Positions(input, "call") : Orphan(i)})
  IN deduped \o [k \in DOMAIN missing |-> Item("output", missing[k].id, <<0>>, FALSE)]

(* Slip: an assistant message without content is kept. *)
NormalizeNothing(messages) == messages

(* _normalize_chat_message: an assistant says something or calls something. *)
Normalize(messages) ==
  Pick(messages, {i \in DOMAIN messages :
                    messages[i].role = "assistant" =>
                      messages[i].body # <<>> \/ messages[i].calls # <<>>})

(* What an item that is no call is as a message. *)
AsMessage(x) ==
  ChatMessage([user |-> "user", other |-> "user", message |-> "assistant", output |-> "tool"][x.type],
              IF x.type = "output" THEN x.id ELSE NoId, x.body, <<>>, x.thought)

(* responses_body_to_chat_messages, and the loop of _input_to_messages:     *)
(* calls in a row are one assistant message, with the reasoning any of them *)
(* has; an item that makes no message ends a row.                           *)
Group(input) ==
  LET IsCall(i) == i \in Positions(input, "call")
      Row(i) == {j \in i..Len(input) : \A k \in i..j : IsCall(k)}
      calls(i) == [k \in 1..Cardinality(Row(i)) |-> Call(input[i + k - 1].id, input[i + k - 1].body)]
      thought(i) == \E k \in 1..Cardinality(Row(i)) : input[i + k - 1].thought
      message(i) == IF IsCall(i) THEN ChatMessage("assistant", NoId, <<>>, calls(i), thought(i))
                    ELSE AsMessage(input[i])
  IN Pick([i \in DOMAIN input |-> message(i)],
          {i \in DOMAIN input : input[i].type # "other" /\ (IsCall(i) => ~ IsCall(i - 1))})

(* No message of the model has its reasoning, and what _input_to_messages   *)
(* reads of the items: that of calls only.                                  *)
Quiet(input) == \A i \in Positions(input, "message") : ~ input[i].thought
Unthought(input) ==
  [i \in DOMAIN input |->
     IF input[i].type = "message" THEN [input[i] EXCEPT !.thought = FALSE] ELSE input[i]]

(* Slip: every call of a request is a message of its own. *)
InputToSingleCalls(input) ==
  Normalize([i \in DOMAIN input |->
    LET x == Unthought(input)[i]
    IN IF x.type = "call" THEN ChatMessage("assistant", NoId, <<>>, <<Call(x.id, x.body)>>, x.thought)
       ELSE AsMessage(x)])

InputToMessages(input) == Normalize(Group(Unthought(input)))
BodyToMessages(output) == Group(output)

(* What json.dumps makes of a message: its frame, its text, its reasoning,   *)
(* and for each call a frame and its arguments.                              *)
Size(m) ==
  (IF m.thought THEN 2 ELSE 1) + Len(m.body)
    + SumAt([j \in DOMAIN m.calls |-> 1 + Len(m.calls[j].body)], DOMAIN m.calls)
Sizes(messages) == [i \in DOMAIN messages |-> Size(messages[i])]
Chars(messages) == SumAt(Sizes(messages), DOMAIN messages)

SystemAt(messages) == {i \in DOMAIN messages : messages[i].role = "system"}
OthersAt(messages) == DOMAIN messages \ SystemAt(messages)

(* Slip: the list's brackets and separators are not counted. *)
HaveRoomUnlisted(sizes, positions, budget) == SumAt(sizes, positions) <= budget

(* Some messages have room: by their sizes, and several of them also as the *)
(* list that json.dumps makes of them, with two characters more for each.   *)
HaveRoom(sizes, positions, budget) ==
  /\ SumAt(sizes, positions) <= budget
  /\ Cardinality(positions) > 1 => SumAt(sizes, positions) + 2 * Cardinality(positions) <= budget

(* The loop of _truncate_chat_messages after k messages, the newest first:  *)
(* what has room is kept until something has not; one larger than the whole *)
(* room is passed over.                                                     *)
Walk(messages, budget) ==
  LET sizes == Sizes(messages)
      Step(acc, i) ==
        IF acc.full \/ i \notin OthersAt(messages) \/ (sizes[i] > budget /\ acc.kept # {}) THEN acc
        ELSE IF HaveRoom(sizes, acc.kept \cup {i}, budget) THEN [acc EXCEPT !.kept = @ \cup {i}]
        ELSE [acc EXCEPT !.full = TRUE]
      walk[k \in 0..Len(messages)] ==
        IF k = 0 THEN [full |-> FALSE, kept |-> {}] ELSE Step(walk[k - 1], Len(messages) + 1 - k)
  IN walk

(* The text of a message that is too long alone. *)
Clip(m) ==
  IF Len(m.body) > MaxChars \div 2
  THEN [m EXCEPT !.body = SubSeq(@, Len(@) - (MaxChars + 1) \div 2 + 1, Len(@))] ELSE m

(* Of messages that are too many: those of the system, and what the loop    *)
(* keeps of the others, or the newest, clipped.                             *)
Shorten(messages, budget) ==
  LET others == OthersAt(messages)
      kept == Walk(messages, budget)[Len(messages)].kept
  IN Pick(messages, SystemAt(messages))
       \o IF kept = {} /\ others # {} THEN <<Clip(messages[Max(others)])>> ELSE Pick(messages, kept)

(* _truncate_chat_messages. *)
Truncate(messages) ==
  LET budget == MaxChars - SumAt(Sizes(messages), SystemAt(messages))
  IN IF Chars(messages) <= MaxChars THEN messages ELSE Shorten(messages, budget)

(* The client's instructions; a first request has those of the model too    *)
(* (_inject_per_model_instructions).                                        *)
Instructions(first) ==
  ChatMessage("system", NoId, IF first /\ PerModel THEN <<1, 2>> ELSE <<1>>, <<>>, FALSE)

(* responses_request_to_chat, before _truncate_chat_messages. *)
Request(history, input, first) ==
  LET messages == Normalize(history)
      system == Instructions(first)
  IN messages \o (IF \E i \in DOMAIN messages : messages[i] = system THEN <<>> ELSE <<system>>)
       \o InputToMessages(Repair(input))

-----------------------------------------------------------------------------
(* From Chat to Responses.                                                  *)

NoAnswer == [text |-> <<>>, calls |-> <<>>, thought |-> FALSE]
Ordered(calls) == Pick(Fragments(MaxCalls), DOMAIN calls)

(* chat_response_to_responses: the calls, then the text, each with the      *)
(* reasoning.                                                               *)
ToResponses(text, calls, origin, blank, thought) ==
  LET order == Ordered(calls)
      id(i) == IF calls[i].id = NoId THEN MintedId(origin, i) ELSE calls[i].id
  IN [k \in DOMAIN order |-> Item("call", id(order[k]), calls[order[k]].body, thought)]
       \o IF text # <<>> \/ blank THEN <<Item("message", NoId, text, thought)>> ELSE <<>>

(* _build_chat_sse_from_response: three events for an item, the last with   *)
(* the whole item, between one that opens the response and one that has it. *)
BuildSse(output) ==
  LET Event(type, item, all) == [type |-> type, item |-> item, output |-> all]
      last == 3 * Len(output) + 2
      opened(i) == [output[i] EXCEPT !.body = <<>>]
      of(i, n) == IF n = 3 * i - 1 THEN Event("added", opened(i), <<>>)
                  ELSE IF n = 3 * i THEN Event("delta", output[i], <<>>)
                  ELSE Event("item.done", output[i], <<>>)
  IN [n \in 1..last |-> IF n = 1 THEN Event("created", NoItem, <<>>)
                        ELSE IF n = last THEN Event("completed", NoItem, output)
                        ELSE of((n + 1) \div 3, n)]

(* response_json_from_sse: the completed response, or the items that are done. *)
FromSse(events) ==
  LET completed == Positions(events, "completed")
      done == Pick(events, Positions(events, "item.done"))
  IN IF completed # {} THEN events[Max(completed)].output
     ELSE [k \in DOMAIN done |-> done[k].item]

-----------------------------------------------------------------------------
(* The conversation.                                                        *)

Init ==
  /\ phase = "client"
  /\ items = <<>> /\ fresh = <<>> /\ stored = <<>>
  /\ resent = <<>> /\ chained = <<>>
  /\ agg = NoAnswer /\ answer = <<>>
  /\ sent = [text |-> 0, calls |-> <<>>]
  /\ posts = 0
  /\ plain = TRUE

(* Bound: only what may still be posted. *)
Says(item) ==
  /\ posts < MaxPosts
  /\ items' = Append(items, item)
  /\ fresh' = Append(fresh, item)
  /\ UNCHANGED <<phase, proxy, agg, answer, sent, posts>>

UserSays ==
  /\ phase = "client"
  /\ \A i \in DOMAIN fresh : fresh[i].type # "user"
  /\ \E n \in Lengths : Says(Item("user", NoId, Fragments(n), FALSE))
  /\ UNCHANGED plain

(* An item of another upstream, or of a compaction.  Bound: once, after the *)
(* first answer, where it ends a row of calls.                              *)
SendsOther ==
  /\ phase = "client"
  /\ posts = 1 /\ fresh = <<>> /\ items[Len(items)].type = "call"
  /\ Says(Item("other", NoId, <<>>, FALSE))
  /\ UNCHANGED plain

(* The client runs a call, or sends an output once more. *)
SendsOutput ==
  /\ phase = "client"
  /\ LET outputs == Cardinality(Positions(items, "output")) IN
     /\ outputs < MaxOutputs
     /\ \E id \in Ids(items, "call") :
          /\ Says(Item("output", id, <<outputs + 1>>, FALSE))
          /\ plain' = (plain /\ id \notin Ids(items, "output") \ Ids(fresh, "output"))

(* post_upstream_buffered, up to the post. *)
Post ==
  /\ phase = "client"
  /\ fresh # <<>>
  /\ posts < MaxPosts
  /\ phase' = "stream"
  /\ posts' = posts + 1
  /\ resent' = Truncate(Request(<<>>, items, TRUE))
  /\ chained' = Truncate(Request(stored, fresh, posts = 0))
  /\ agg' = NoAnswer
  /\ sent' = [text |-> 0, calls |-> <<>>]
  /\ plain' = (plain /\ Ids(items, "call") \subseteq Ids(items, "output"))
  /\ UNCHANGED <<client, stored, answer>>

(* calls[i] = x, for an index that may be new. *)
With(calls, i, x) == [j \in DOMAIN calls \cup {i} |-> IF j = i THEN x ELSE calls[j]]

Deltas == sent.text + SumAt(sent.calls, DOMAIN sent.calls)

(* Bound: what the client has of all answers, and the stream so far. *)
MayStream ==
  LET said == Positions(items, "message") \cup Positions(items, "call")
  IN phase = "stream" /\ posts < MaxPosts /\ Deltas + SumAt([i \in said |-> Len(items[i].body)], said) < MaxDeltas

(* A chunk with text. *)
TextDelta ==
  /\ MayStream
  /\ sent' = [sent EXCEPT !.text = @ + 1]
  /\ agg' = [agg EXCEPT !.text = Append(@, sent'.text)]
  /\ UNCHANGED <<phase, client, proxy, answer, posts, plain>>

(* A chunk with reasoning. *)
ThoughtDelta ==
  /\ MayStream
  /\ agg' = [agg EXCEPT !.thought = TRUE]
  /\ UNCHANGED <<phase, client, proxy, answer, sent, posts, plain>>

(* Slip: a chunk of another call begins the arguments anew. *)
CallDeltaResets(i) ==
  /\ MayStream
  /\ LET known == i \in DOMAIN agg.calls
         n == IF known THEN sent.calls[i] ELSE 0
         others == [j \in DOMAIN agg.calls |-> [agg.calls[j] EXCEPT !.body = <<>>]]
     IN \E named \in BOOLEAN :
          LET id == IF named THEN GivenId(i) ELSE IF known THEN agg.calls[i].id ELSE NoId
              body == IF known THEN agg.calls[i].body ELSE <<>>
          IN /\ sent' = [sent EXCEPT !.calls = With(@, i, n + 1)]
             /\ agg' = [agg EXCEPT !.calls = With(others, i, Call(id, Append(body, n + 1)))]
  /\ UNCHANGED <<phase, client, proxy, answer, posts, plain>>

(* A chunk with a part of the call of an index; any of them may have its id. *)
CallDelta(i) ==
  /\ MayStream
  /\ LET known == i \in DOMAIN agg.calls
         n == IF known THEN sent.calls[i] ELSE 0
     IN \E named \in BOOLEAN :
          LET id == IF named THEN GivenId(i) ELSE IF known THEN agg.calls[i].id ELSE NoId
              body == IF known THEN agg.calls[i].body ELSE <<>>
          IN /\ sent' = [sent EXCEPT !.calls = With(@, i, n + 1)]
             /\ agg' = [agg EXCEPT !.calls = With(@, i, Call(id, Append(body, n + 1)))]
  /\ UNCHANGED <<phase, client, proxy, answer, posts, plain>>

Receives(output) ==
  /\ phase' = "client"
  /\ answer' = output
  /\ items' = items \o output
  /\ fresh' = <<>>
  /\ UNCHANGED <<resent, chained, agg, sent, posts>>

(* Bound: the last post has no answer. *)
MayEnd == phase = "stream" /\ posts < MaxPosts

(* The stream ends.  It is converted twice: for the store and the client.   *)
StreamEnds ==
  /\ MayEnd
  /\ LET text == IF agg.calls = <<>> THEN agg.text ELSE <<>> IN
       /\ stored' = chained \o BodyToMessages(ToResponses(text, agg.calls, 1, FALSE, agg.thought))
       /\ Receives(FromSse(BuildSse(ToResponses(text, agg.calls, 2, FALSE, agg.thought))))
  /\ plain' = (plain /\ Quiet(answer') /\ \A i \in DOMAIN agg.calls : agg.calls[i].id # NoId)

(* The same answer in one JSON body, whose message is stored as it is. *)
JsonAnswer ==
  /\ MayEnd
  /\ LET order == Ordered(agg.calls) IN
       stored' = Append(chained, ChatMessage("assistant", NoId, agg.text,
                                             [k \in DOMAIN order |-> agg.calls[order[k]]], agg.thought))
  /\ \E blank \in BOOLEAN : Receives(ToResponses(agg.text, agg.calls, 2, blank, agg.thought))
  /\ plain' = (plain /\ Quiet(answer')
                     /\ (agg.text = <<>> \/ agg.calls = <<>>)
                     /\ \A i \in DOMAIN agg.calls : agg.calls[i].id # NoId)

Next ==
  \/ UserSays \/ SendsOther \/ SendsOutput \/ Post
  \/ TextDelta \/ ThoughtDelta \/ \E i \in Indices : CallDelta(i)
  \/ StreamEnds \/ JsonAnswer

Spec == Init /\ [][Next]_vars

-----------------------------------------------------------------------------
(* Properties.                                                              *)

(* Types; an assistant message that is posted has text or calls.            *)
TypeOK ==
  /\ phase \in {"client", "stream"}
  /\ posts \in 0..MaxPosts /\ plain \in BOOLEAN
  /\ \A i \in DOMAIN items :
       items[i].type \in {"user", "other", "message", "call", "output"} /\ items[i].id \in Nat \X (0..2) \X Nat
  /\ DOMAIN sent.calls = DOMAIN agg.calls /\ DOMAIN agg.calls \subseteq Indices
  /\ \A m \in ToSet(resent) \cup ToSet(chained) :
       /\ m.role \in {"system", "user", "assistant", "tool"}
       /\ m.role = "assistant" => m.body # <<>> \/ m.calls # <<>>

(* Whichever way the chunks of text and calls were cut and mixed, the client*)
(* gets every call, in the order of the indices and with all its arguments, *)
(* and, where there is no call, all of the text.  A stream that breaks off  *)
(* never leaves it with a wrong item: it has read a prefix of the answer.   *)
AnswerIsWhole ==
  phase = "client" /\ posts > 0 =>
    LET events == BuildSse(answer)
        calls == Pick(answer, Positions(answer, "call"))
        order == Ordered(sent.calls)
        text == Pick(answer, {i \in Positions(answer, "message") : answer[i].body # <<>>})
    IN /\ [k \in DOMAIN calls |-> calls[k].body] = [k \in DOMAIN order |-> Fragments(sent.calls[order[k]])]
       /\ calls = <<>> /\ sent.text > 0 => text = <<Item("message", NoId, Fragments(sent.text), agg.thought)>>
       /\ \A n \in 0..Len(events) : IsPrefix(FromSse(SubSeq(events, 1, n)), answer)

JustPosted == phase = "stream" /\ Deltas = 0

(* "Make every function_call in a Responses input have exactly one output", *)
(* the freshest; it comes after the call.                                   *)
CallsAnsweredOnce ==
  LET input == Repair(items) IN JustPosted =>
    \A i \in DOMAIN input : input[i].type = "call" =>
      /\ \E j \in (i + 1)..Len(input) : input[j].type = "output" /\ input[j].id = input[i].id
      /\ \A j \in DOMAIN input : input[j].type = "output" /\ input[j].id = input[i].id =>
           \A k \in DOMAIN items : items[k].type = "output" /\ items[k].id = input[i].id =>
             items[k].body[1] <= input[j].body[1]
      /\ Cardinality({j \in DOMAIN input : input[j].type = "output" /\ input[j].id = input[i].id}) = 1

(* What is posted fits the limit and has all system messages, unless even   *)
(* the newest message does not fit beside them; what is left out is too     *)
(* large itself, or has no room in one list with all that is newer and not  *)
(* too large.                                                               *)
TruncationIsSound ==
  LET messages == Request(<<>>, items, TRUE)
      others == OthersAt(messages)
      sizes == Sizes(messages)
      budget == MaxChars - SumAt(sizes, SystemAt(messages))
      newest == sizes[Max(others)]
      Newer(i) == {j \in others : j >= i /\ sizes[j] <= budget}
      Listed(S) == SumAt(sizes, S) + IF Cardinality(S) > 1 THEN 2 * Cardinality(S) ELSE 0
  IN JustPosted =>
       /\ Pick(resent, SystemAt(resent)) = Pick(messages, SystemAt(messages))
       /\ others # {} /\ newest <= budget =>
            /\ Chars(resent) <= MaxChars
            /\ Pick(resent, OthersAt(resent))
                 = Pick(messages, {i \in others :
                      /\ sizes[i] <= budget
                      /\ Listed(Newer(i)) <= budget \/ Chars(messages) <= MaxChars})

(* The client that chains its responses has the same messages posted as the *)
(* one that resends everything, as long as each call has an id and one      *)
(* timely output, no answer in one body has text and calls, no message of   *)
(* the model has reasoning (which the store keeps and the items lose: that  *)
(* of calls both keep), and nothing needs to be left out.                   *)
SamePrompt ==
  JustPosted /\ plain /\ Chars(Request(<<>>, items, TRUE)) <= MaxChars => chained = resent
=============================================================================
