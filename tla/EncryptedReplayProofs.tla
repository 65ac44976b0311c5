-------------------------- MODULE EncryptedReplayProofs --------------------------
(***************************************************************************)
(* Proofs about EncryptedReplay, for any set of requests, sessions,         *)
(* upstreams, models and items, any number of switches, restarts and loop   *)
(* iterations, and any admitted disturbances.                               *)
(***************************************************************************)
EXTENDS EncryptedReplay, TLAPS

USE RouteAssumption, TurnsAssumption, DisturbancesAssumption

-----------------------------------------------------------------------------
(* The inductive invariant *)

InFlight(r) == pc[r] \in {"hook", "post", "relay"}

MintedOn(f, items) == \A i \in items : MintedBy[i] = f

Recorded(s, items) == \A i \in items : i \in accepted[s][MintedBy[i]]

(* The locals between requests and before the first post; what is relayed    *)
(* was accepted.                                                            *)
LocalOK(r) ==
  /\ pc[r] = "idle" => req[r] = NoRequest
  /\ pc[r] = "body" => req[r].turn = 0 /\ req[r].arrivedOn # None
  /\ pc[r] = "relay" => Foreign(r) = {}

(* Without a switch under a request in flight, a handler uses one route, of *)
(* the selected upstream and its own model, and what it holds for the       *)
(* client is recorded or will be for the route that minted it.              *)
RouteOK(r) ==
  "flight" \notin disturbed =>
    /\ pc[r] = "body" => req[r].arrivedOn = address
    /\ InFlight(r) => req[r].print = Current(r) /\ req[r].target = Current(r)
    /\ pc[r] = "relay" => MintedOn(req[r].print, req[r].reply)
    /\ pc[r] = "hook" => Recorded(SessionOf[r], req[r].reply)

(* Undisturbed, a post that could be rejected can be repeated, and what the  *)
(* hook may add to is of the handler's route.                               *)
ReplayOK(r) ==
  disturbed = {} =>
    /\ pc[r] = "post" => Foreign(r) = {} \/ MayRetry(r)
    /\ pc[r] = "hook" => MintedOn(req[r].print, req[r].input)

HandlerOK(r) == LocalOK(r) /\ RouteOK(r) /\ ReplayOK(r)

(* A response is recorded before it is saved for the hook.                  *)
SavedOK(s) ==
  saved[s] # None =>
    /\ lastRoute[s] # None
    /\ "flight" \notin disturbed => Recorded(s, saved[s])

IInv == /\ TypeOK
        /\ \A r \in Requests : HandlerOK(r)
        /\ \A s \in Sessions : SavedOK(s)
        /\ RecordsAreTrue
        /\ NoReplayError
        /\ DeliveredIsRecorded

-----------------------------------------------------------------------------
LEMMA NoRequestType == NoRequest \in Locals
BY DEF NoRequest, Locals, Modes

LEMMA InitIInv == Init => IInv
<1> SUFFICES ASSUME Init PROVE IInv
  OBVIOUS
<1> USE DEF Init
<1>1. TypeOK
  BY NoRequestType DEF TypeOK, Answers
<1>2. (\A r \in Requests : HandlerOK(r)) /\ (\A s \in Sessions : SavedOK(s))
  BY DEF HandlerOK, LocalOK, RouteOK, ReplayOK, SavedOK, InFlight, NoRequest
<1>3. RecordsAreTrue /\ NoReplayError /\ DeliveredIsRecorded
  BY DEF RecordsAreTrue, TrueRecords, NoReplayError, NoRejection, DeliveredIsRecorded
<1> QED BY <1>1, <1>2, <1>3 DEF IInv

(* A switch disturbs, unless nothing depends on the upstream that was left.  *)
LEMMA SwitchIInv ==
  ASSUME IInv, Switch
  PROVE  IInv'
<1> USE DEF Switch, tracker, client
<1>1. TypeOK'
  BY DEF IInv, TypeOK
<1>2. /\ disturbed \subseteq disturbed'
      /\ "flight" \notin disturbed' => \A r \in Requests : pc[r] = "idle"
  OBVIOUS
<1>3. ASSUME NEW r \in Requests PROVE HandlerOK(r)'
  <2>1. LocalOK(r)'
    BY DEF IInv, HandlerOK, LocalOK, Foreign
  <2>2. RouteOK(r)' /\ ReplayOK(r)'
    BY <1>2 DEF RouteOK, ReplayOK, InFlight
  <2> QED BY <2>1, <2>2 DEF HandlerOK
<1>4. ASSUME NEW s \in Sessions PROVE SavedOK(s)'
  BY <1>2 DEF IInv, SavedOK, Recorded
<1>5. RecordsAreTrue' /\ NoReplayError'
  BY <1>2 DEF IInv, RecordsAreTrue, TrueRecords, NoReplayError, NoRejection
<1>6. DeliveredIsRecorded'
  BY <1>2 DEF IInv, DeliveredIsRecorded
<1> QED BY <1>1, <1>3, <1>4, <1>5, <1>6 DEF IInv

(* After a restart nothing is recorded and nothing is known to be delivered. *)
LEMMA RestartIInv ==
  ASSUME IInv, Restart
  PROVE  IInv'
<1> USE DEF Restart, settings
<1>1. TypeOK'
  BY NoRequestType DEF IInv, TypeOK
<1>2. (\A r \in Requests : HandlerOK(r)') /\ (\A s \in Sessions : SavedOK(s)')
  BY DEF HandlerOK, LocalOK, RouteOK, ReplayOK, SavedOK, InFlight, NoRequest
<1>3. RecordsAreTrue'
  BY DEF RecordsAreTrue, TrueRecords
<1>4. NoReplayError' /\ DeliveredIsRecorded'
  BY DEF IInv, NoReplayError, NoRejection, DeliveredIsRecorded
<1> QED BY <1>1, <1>2, <1>3, <1>4 DEF IInv

LEMMA StutterIInv ==
  ASSUME IInv, UNCHANGED vars
  PROVE  IInv'
<1> USE DEF vars, settings, tracker, client
<1>1. TypeOK'
  BY DEF IInv, TypeOK
<1>2. (\A r \in Requests : HandlerOK(r)') /\ (\A s \in Sessions : SavedOK(s)')
  BY DEF IInv, HandlerOK, LocalOK, RouteOK, ReplayOK, SavedOK, InFlight, Recorded,
         MintedOn, Current, Foreign, MayRetry
<1>3. RecordsAreTrue' /\ NoReplayError' /\ DeliveredIsRecorded'
  BY DEF IInv, RecordsAreTrue, TrueRecords, NoReplayError, NoRejection, DeliveredIsRecorded
<1> QED BY <1>1, <1>2, <1>3 DEF IInv

-----------------------------------------------------------------------------
(* What the steps of the handlers have in common                            *)

(* Records only grow.                                                       *)
Grows ==
  /\ \A s \in Sessions, f \in Routes : accepted[s][f] \subseteq accepted'[s][f]
  /\ \A s \in Sessions : lastRoute[s] # None => lastRoute'[s] # None

(* What Record adds, and where.                                             *)
LEMMA RecordFacts ==
  ASSUME TypeOK, NEW r \in Requests, NEW items \in SUBSET Items,
         Record(r, items), req[r].print # None
  PROVE  /\ accepted' \in [Sessions -> [Routes -> SUBSET Items]]
         /\ lastRoute' \in [Sessions -> Routes \cup {None}]
         /\ Grows
         /\ req[r].input \cup items \subseteq accepted'[SessionOf[r]][req[r].print]
         /\ \A s \in Sessions, f \in Routes : \A i \in accepted'[s][f] :
              i \in accepted[s][f] \/ (f = req[r].print /\ i \in req[r].input \cup items)
         /\ lastRoute'[SessionOf[r]] # None
<1> DEFINE s == SessionOf[r]
           f == req[r].print
<1>1. /\ s \in Sessions
      /\ f \in Routes
      /\ req[r].input \subseteq Items
  BY DEF TypeOK, Locals
<1>2. /\ accepted' = [accepted EXCEPT ![s][f] = @ \cup req[r].input \cup items]
      /\ lastRoute' = [lastRoute EXCEPT ![s] = f]
  BY DEF Record
<1> HIDE DEF s, f
<1>3. /\ accepted \in [Sessions -> [Routes -> SUBSET Items]]
      /\ lastRoute \in [Sessions -> Routes \cup {None}]
  BY DEF TypeOK
<1>4. /\ accepted'[s][f] = accepted[s][f] \cup req[r].input \cup items
      /\ \A t \in Sessions, g \in Routes :
           t # s \/ g # f => accepted'[t][g] = accepted[t][g]
  BY <1>1, <1>2, <1>3
<1>5. /\ accepted' \in [Sessions -> [Routes -> SUBSET Items]]
      /\ lastRoute' \in [Sessions -> Routes \cup {None}]
      /\ lastRoute'[s] = f
      /\ \A t \in Sessions \ {s} : lastRoute'[t] = lastRoute[t]
  BY <1>1, <1>2, <1>3
<1>6. Grows
  BY <1>1, <1>4, <1>5 DEF Grows
<1> QED BY <1>1, <1>4, <1>5, <1>6 DEF s, f

(* A prepared request keeps its model.                                      *)
LEMMA CurrentType ==
  ASSUME IInv, NEW r \in Requests, InFlight(r)
  PROVE  Current(r) \in Routes
<1>1. address \in Addresses /\ req[r].print \in Routes
  BY DEF IInv, TypeOK, InFlight, Locals
<1> QED BY <1>1 DEF Routes, Current

(* A handler whose locals do not change is not affected by another one.     *)
LEMMA OthersOK ==
  ASSUME IInv, address' = address, disturbed \subseteq disturbed', Grows,
         NEW p \in Requests, pc'[p] = pc[p], req'[p] = req[p]
  PROVE  HandlerOK(p)'
<1>1. HandlerOK(p) /\ SessionOf[p] \in Sessions
  BY DEF IInv
<1>2. LocalOK(p)'
  BY <1>1 DEF HandlerOK, LocalOK, Foreign
<1>3. pc[p] = "hook" => \A i \in req[p].reply : MintedBy[i] \in Routes
  BY DEF IInv, TypeOK, Locals
<1>4. RouteOK(p)'
  BY <1>1, <1>3 DEF HandlerOK, RouteOK, InFlight, MintedOn, Recorded, Grows, Current
<1>5. ReplayOK(p)'
  BY <1>1 DEF HandlerOK, ReplayOK, MintedOn, Foreign, MayRetry
<1> QED BY <1>2, <1>4, <1>5 DEF HandlerOK

(* Nor is a saved response.                                                 *)
LEMMA SavedStaysOK ==
  ASSUME IInv, address' = address, disturbed \subseteq disturbed', Grows,
         NEW s \in Sessions, saved'[s] \in {None, saved[s]}
  PROVE  SavedOK(s)'
<1>1. SavedOK(s)
  BY DEF IInv
<1>2. saved[s] # None => \A i \in saved[s] : MintedBy[i] \in Routes
  BY DEF IInv, TypeOK
<1> QED BY <1>1, <1>2 DEF SavedOK, Recorded, Grows

(* A handler that ends its request.                                         *)
LEMMA FinishOK ==
  ASSUME IInv, NEW r \in Requests, NEW kind \in Answers, Finish(r, kind)
  PROVE  /\ pc' \in [Requests -> {"idle", "body", "hook", "post", "relay"}]
         /\ req' \in [Requests -> Locals]
         /\ answer' \in [Requests -> Answers]
         /\ pc'[r] = "idle"
         /\ \A p \in Requests \ {r} : pc'[p] = pc[p] /\ req'[p] = req[p]
         /\ \A p \in Requests : answer'[p] = "replay404" =>
              answer[p] = "replay404" \/ kind = "replay404"
         /\ HandlerOK(r)'
<1>1. /\ pc' \in [Requests -> {"idle", "body", "hook", "post", "relay"}]
      /\ req' \in [Requests -> Locals]
      /\ answer' \in [Requests -> Answers]
      /\ pc'[r] = "idle"
      /\ req'[r] = NoRequest
      /\ \A p \in Requests \ {r} : pc'[p] = pc[p] /\ req'[p] = req[p]
      /\ \A p \in Requests : answer'[p] = "replay404" =>
           answer[p] = "replay404" \/ kind = "replay404"
  BY NoRequestType DEF IInv, TypeOK, Finish
<1>2. HandlerOK(r)'
  BY <1>1 DEF HandlerOK, LocalOK, RouteOK, ReplayOK, InFlight
<1> QED BY <1>1, <1>2

(* An accepted post carries items of the route it was sent to, and gets one  *)
(* of that route.                                                           *)
LEMMA AcceptFacts ==
  ASSUME IInv, NEW r \in Requests, NEW items \in SUBSET Items, Accepts(r, items)
  PROVE  /\ pc[r] = "post"
         /\ req[r].print \in Routes /\ req[r].target \in Routes
         /\ \A i \in req[r].input \cup items : MintedBy[i] = req[r].target
         /\ "flight" \notin disturbed => /\ req[r].print = Current(r)
                                         /\ req[r].target = Current(r)
<1>1. /\ pc[r] = "post"
      /\ \A i \in req[r].input \cup items : MintedBy[i] = req[r].target
  BY DEF Accepts, Foreign, Mints
<1>2. req[r].print \in Routes /\ req[r].target \in Routes
  BY <1>1 DEF IInv, TypeOK, Locals
<1>3. "flight" \notin disturbed => req[r].print = Current(r) /\ req[r].target = Current(r)
  BY <1>1 DEF IInv, HandlerOK, RouteOK, InFlight
<1> QED BY <1>1, <1>2, <1>3

(* Recording items for the route that minted them.                          *)
LEMMA TruthKept ==
  ASSUME IInv, NEW r \in Requests, NEW items \in SUBSET Items, Record(r, items),
         req[r].print # None, disturbed \subseteq disturbed',
         disturbed' \subseteq {"batch"} =>
           \A i \in req[r].input \cup items : MintedBy[i] = req[r].print
  PROVE  RecordsAreTrue'
<1>1. \A s \in Sessions, f \in Routes : \A i \in accepted'[s][f] :
        i \in accepted[s][f] \/ (f = req[r].print /\ i \in req[r].input \cup items)
  BY RecordFacts DEF IInv
<1> QED BY <1>1 DEF IInv, RecordsAreTrue, TrueRecords

(* Delivering items that are recorded or that this handler relays, and       *)
(* ending a relay with its items recorded.                                  *)
LEMMA DeliveryKept ==
  ASSUME IInv, NEW r \in Requests, NEW items \in SUBSET Items,
         Deliver(r, items) \/ (items = {} /\ UNCHANGED client),
         disturbed \subseteq disturbed', Grows,
         \A p \in Requests \ {r} : pc'[p] = pc[p] /\ req'[p] = req[p],
         "flight" \notin disturbed' =>
           /\ \A i \in items : \/ i \in accepted'[SessionOf[r]][MintedBy[i]]
                               \/ pc'[r] = "relay" /\ i \in req'[r].reply
           /\ pc[r] = "relay" =>
                \A i \in req[r].reply : i \in accepted'[SessionOf[r]][MintedBy[i]]
  PROVE  /\ history' \in [Sessions -> SUBSET Items]
         /\ unknown' \in [Sessions -> SUBSET Items]
         /\ DeliveredIsRecorded'
<1>1. /\ history' \in [Sessions -> SUBSET Items]
      /\ unknown' \in [Sessions -> SUBSET Items]
      /\ \A s \in Sessions : \A i \in history'[s] \ unknown'[s] :
           i \in history[s] \ unknown[s] \/ (s = SessionOf[r] /\ i \in items)
  <2>1. CASE UNCHANGED client
    BY <2>1 DEF IInv, TypeOK, client
  <2>2. CASE Deliver(r, items)
    BY <2>2 DEF IInv, TypeOK, Deliver
  <2> QED BY <2>1, <2>2
<1>2. ASSUME "flight" \notin disturbed', NEW s \in Sessions,
             NEW i \in history'[s] \ unknown'[s]
      PROVE  \/ i \in accepted'[s][MintedBy[i]]
             \/ \E p \in Requests :
                  SessionOf[p] = s /\ pc'[p] = "relay" /\ i \in req'[p].reply
  <2>1. CASE s = SessionOf[r] /\ i \in items
    BY <1>2, <2>1
  <2>2. CASE i \in history[s] \ unknown[s]
    <3>1. i \in Items /\ MintedBy[i] \in Routes
      BY <2>2 DEF IInv, TypeOK
    <3>2. CASE i \in accepted[s][MintedBy[i]]
      BY <3>1, <3>2 DEF Grows
    <3>3. ASSUME NEW p \in Requests,
                 SessionOf[p] = s, pc[p] = "relay", i \in req[p].reply
          PROVE  \/ i \in accepted'[s][MintedBy[i]]
                 \/ pc'[p] = "relay" /\ i \in req'[p].reply
      BY <1>2, <3>3
    <3> QED BY <1>2, <2>2, <3>2, <3>3 DEF IInv, DeliveredIsRecorded
  <2> QED BY <1>1, <2>1, <2>2
<1> QED BY <1>1, <1>2 DEF DeliveredIsRecorded

(* A step of a handler in terms of its own locals: q.                       *)
LEMMA ArriveIInv ==
  ASSUME IInv, NEW r \in Requests, NEW replayed \in SUBSET Items, Arrive(r, replayed)
  PROVE  IInv'
<1> DEFINE q == [req[r] EXCEPT !.arrivedOn = address, !.input = replayed]
<1>1. /\ UNCHANGED <<settings, restarts, tracker, saved, client, disturbed>>
      /\ pc[r] = "idle"
      /\ pc' = [pc EXCEPT ![r] = "body"]
      /\ req' = [req EXCEPT ![r] = q]
      /\ answer' = [answer EXCEPT ![r] = "none"]
  BY DEF Arrive
<1>2. q \in Locals /\ q.turn = 0 /\ q.arrivedOn = address
  <2>1. req[r] = NoRequest /\ address \in Addresses
    BY <1>1 DEF IInv, TypeOK, HandlerOK, LocalOK
  <2>2. q \in Locals
    BY <2>1, NoRequestType DEF Locals
  <2> QED BY <2>1, <2>2 DEF NoRequest
<1> HIDE DEF q
<1> USE DEF settings, tracker, client
<1>3. /\ pc'[r] = "body" /\ req'[r] = q
      /\ \A p \in Requests \ {r} : pc'[p] = pc[p] /\ req'[p] = req[p]
  BY <1>1 DEF IInv, TypeOK
<1>4. TypeOK'
  BY <1>1, <1>2 DEF IInv, TypeOK, Answers
<1>5. HandlerOK(r)'
  BY <1>1, <1>2, <1>3
     DEF IInv, TypeOK, HandlerOK, LocalOK, RouteOK, ReplayOK, InFlight
<1>6. \A p \in Requests : HandlerOK(p)'
  BY <1>1, <1>3, <1>5, OthersOK DEF Grows
<1>7. \A s \in Sessions : SavedOK(s)'
  BY <1>1, SavedStaysOK DEF Grows
<1>8. RecordsAreTrue' /\ NoReplayError'
  BY <1>1 DEF IInv, TypeOK, RecordsAreTrue, TrueRecords, NoReplayError, NoRejection
<1>9. DeliveredIsRecorded'
  BY <1>1, <1>3 DEF IInv, DeliveredIsRecorded
<1> QED BY <1>4, <1>6, <1>7, <1>8, <1>9 DEF IInv

(* The filter of a recorded session leaves what the route will accept; an    *)
(* unrecorded session has no saved response and may retry.                  *)
LEMMA BeginIInv ==
  ASSUME IInv, NEW r \in Requests, NEW m \in Modes, NEW model \in Models,
         Begin(r, m, model)
  PROVE  IInv'
<1> DEFINE f == <<address, model>>
           again == req[r].input # {} /\ Unrecorded(r)
           to == IF m = "decision" THEN "hook" ELSE "post"
           q == [req[r] EXCEPT
                   !.mode = m,
                   !.arrivedOn = None,
                   !.print = f,
                   !.retry = again,
                   !.input = Filtered(r, f),
                   !.reply = IF m = "decision" THEN saved[SessionOf[r]] ELSE {},
                   !.target = IF m = "forward" /\ ~again THEN <<req[r].arrivedOn, model>> ELSE f]
<1>1. /\ UNCHANGED <<settings, restarts, tracker, saved, client, answer, disturbed>>
      /\ pc[r] = "body"
      /\ m = "decision" => saved[SessionOf[r]] # None
      /\ pc' = [pc EXCEPT ![r] = to]
      /\ req' = [req EXCEPT ![r] = q]
  BY DEF Begin
<1>2. /\ req[r] \in Locals /\ req[r].turn = 0 /\ req[r].arrivedOn \in Addresses
      /\ f \in Routes /\ <<req[r].arrivedOn, model>> \in Routes
      /\ SessionOf[r] \in Sessions
      /\ Filtered(r, f) \in SUBSET Items
      /\ m = "decision" => saved[SessionOf[r]] \in SUBSET Items
  <2>1. req[r] \in Locals /\ req[r].arrivedOn \in Addresses /\ req[r].turn = 0
    BY <1>1 DEF IInv, TypeOK, HandlerOK, LocalOK, Locals
  <2>2. req[r].input \in SUBSET Items
    BY <2>1 DEF Locals
  <2>3. f \in Routes /\ <<req[r].arrivedOn, model>> \in Routes
    BY <2>1 DEF IInv, TypeOK, Routes
  <2> QED BY <1>1, <2>1, <2>2, <2>3 DEF IInv, TypeOK, Filtered
<1>3. /\ q \in Locals
      /\ q.mode = m /\ q.print = f /\ q.retry = again /\ q.turn = 0
      /\ q.input = Filtered(r, f)
      /\ m = "decision" => q.reply = saved[SessionOf[r]]
      /\ q.target \in Routes
      /\ q.target \in {f, <<req[r].arrivedOn, model>>}
  BY <1>2 DEF Locals
<1> HIDE DEF q
<1> USE DEF settings, tracker, client
<1>4. /\ pc'[r] = to /\ req'[r] = q
      /\ \A p \in Requests \ {r} : pc'[p] = pc[p] /\ req'[p] = req[p]
  BY <1>1 DEF IInv, TypeOK
<1>5. TypeOK'
  <2>1. pc' \in [Requests -> {"idle", "body", "hook", "post", "relay"}]
    BY <1>1 DEF IInv, TypeOK
  <2>2. req' \in [Requests -> Locals]
    BY <1>1, <1>3 DEF IInv, TypeOK
  <2>3. f \in Routes /\ q.print = f
    BY <1>2, <1>3
  <2> HIDE DEF f
  <2> QED BY <1>1, <1>3, <1>4, <2>1, <2>2, <2>3 DEF IInv, TypeOK
<1>6. "flight" \notin disturbed => q.target = f
  BY <1>1, <1>3 DEF IInv, HandlerOK, RouteOK
<1>7. disturbed = {} /\ ~Unrecorded(r) => MintedOn(f, Filtered(r, f))
  BY <1>2 DEF IInv, RecordsAreTrue, TrueRecords, Filtered, MintedOn
<1>14. Current(r)' = f
  BY <1>1, <1>3, <1>4 DEF Current
<1>8. /\ LocalOK(r)'
      /\ RouteOK(r)'
  <2>1. m = "decision" /\ "flight" \notin disturbed
          => Recorded(SessionOf[r], saved[SessionOf[r]])
    BY <1>1, <1>2 DEF IInv, SavedOK
  <2> HIDE DEF f
  <2> QED BY <1>1, <1>2, <1>3, <1>4, <1>6, <1>14, <2>1 DEF LocalOK, RouteOK, InFlight, Recorded
<1>9. ReplayOK(r)'
  <2> SUFFICES ASSUME disturbed = {}
               PROVE  /\ to = "post" => Foreign(r)' = {} \/ MayRetry(r)'
                      /\ to = "hook" => MintedOn(f, q.input)
    BY <1>1, <1>3, <1>4 DEF ReplayOK, MintedOn
  <2>1. q.target = f
    BY <1>6
  <2>2. CASE m = "decision"
    <3>1. ~Unrecorded(r)
      BY <1>1, <1>2, <2>2 DEF IInv, SavedOK, Unrecorded
    <3> QED BY <1>1, <1>3, <1>7, <2>2, <3>1 DEF MintedOn
  <2>3. CASE m # "decision" /\ Unrecorded(r)
    <3>1. Foreign(r)' = {} \/ again
      BY <1>4, <1>3, <2>3 DEF Foreign, Filtered
    <3> QED BY <1>3, <1>4, <2>3, <3>1 DEF MayRetry
  <2>4. CASE m # "decision" /\ ~Unrecorded(r)
    <3>1. Foreign(r)' = {}
      BY <1>3, <1>4, <1>7, <2>1, <2>4 DEF Foreign, MintedOn
    <3> QED BY <3>1, <2>4
  <2> QED BY <2>2, <2>3, <2>4
<1>10. \A p \in Requests : HandlerOK(p)'
  BY <1>1, <1>4, <1>8, <1>9, OthersOK DEF Grows, HandlerOK
<1>11. \A s \in Sessions : SavedOK(s)'
  BY <1>1, SavedStaysOK DEF Grows
<1>12. RecordsAreTrue' /\ NoReplayError'
  BY <1>1 DEF IInv, RecordsAreTrue, TrueRecords, NoReplayError, NoRejection
<1>13. DeliveredIsRecorded'
  BY <1>1, <1>4 DEF IInv, DeliveredIsRecorded
<1> QED BY <1>5, <1>10, <1>11, <1>12, <1>13 DEF IInv

(* The retry has nothing to be rejected for.                                *)
LEMMA RetryIInv ==
  ASSUME IInv, NEW r \in Requests, RetryStripped(r)
  PROVE  IInv'
<1> DEFINE q == [req[r] EXCEPT !.input = {}, !.target = Current(r)]
<1>1. /\ UNCHANGED <<settings, restarts, tracker, saved, client, pc, answer, disturbed>>
      /\ pc[r] = "post"
      /\ req' = [req EXCEPT ![r] = q]
  BY DEF RetryStripped
<1>2. /\ q \in Locals
      /\ q.print = req[r].print /\ q.target = Current(r) /\ q.input = {}
      /\ q.print # None /\ q.target # None
  <2>1. req[r] \in Locals /\ Current(r) \in Routes /\ req[r].print # None
    BY <1>1, CurrentType DEF IInv, TypeOK, InFlight
  <2> QED BY <2>1 DEF Locals
<1> HIDE DEF q
<1> USE DEF settings, tracker, client
<1>3. /\ pc'[r] = "post" /\ req'[r] = q
      /\ \A p \in Requests \ {r} : pc'[p] = pc[p] /\ req'[p] = req[p]
  BY <1>1 DEF IInv, TypeOK
<1>4. TypeOK'
  BY <1>1, <1>2, <1>3 DEF IInv, TypeOK
<1>5. HandlerOK(r)'
  <2>1. "flight" \notin disturbed => q.print = Current(r)
    BY <1>1, <1>2 DEF IInv, HandlerOK, RouteOK, InFlight
  <2>2. Current(r)' = Current(r)
    BY <1>1, <1>2, <1>3 DEF Current
  <2> QED BY <1>1, <1>2, <1>3, <2>1, <2>2
          DEF HandlerOK, LocalOK, RouteOK, ReplayOK, InFlight, Foreign
<1>6. \A p \in Requests : HandlerOK(p)'
  BY <1>1, <1>3, <1>5, OthersOK DEF Grows
<1>7. \A s \in Sessions : SavedOK(s)'
  BY <1>1, SavedStaysOK DEF Grows
<1>8. RecordsAreTrue' /\ NoReplayError'
  BY <1>1 DEF IInv, RecordsAreTrue, TrueRecords, NoReplayError, NoRejection
<1>9. DeliveredIsRecorded'
  BY <1>1, <1>3 DEF IInv, DeliveredIsRecorded
<1> QED BY <1>4, <1>6, <1>7, <1>8, <1>9 DEF IInv

(* Undisturbed, a post is rejected only when it may be retried.             *)
LEMMA FailIInv ==
  ASSUME IInv, NEW r \in Requests, Refused(r) \/ Rejected(r) \/ Fails(r)
  PROVE  IInv'
<1>1. /\ UNCHANGED <<settings, restarts, tracker, saved, client, disturbed>>
      /\ pc[r] \in {"body", "post"}
      /\ \/ Finish(r, "error")
         \/ Finish(r, "replay404") /\ pc[r] = "post" /\ Foreign(r) # {} /\ ~MayRetry(r)
  BY DEF Refused, Rejected, Fails
<1>2. PICK kind \in Answers : /\ Finish(r, kind)
                              /\ kind = "replay404" =>
                                   pc[r] = "post" /\ Foreign(r) # {} /\ ~MayRetry(r)
  BY <1>1 DEF Answers
<1>3. /\ pc' \in [Requests -> {"idle", "body", "hook", "post", "relay"}]
      /\ req' \in [Requests -> Locals]
      /\ answer' \in [Requests -> Answers]
      /\ pc'[r] = "idle"
      /\ \A p \in Requests \ {r} : pc'[p] = pc[p] /\ req'[p] = req[p]
      /\ \A p \in Requests : answer'[p] = "replay404" =>
           answer[p] = "replay404" \/ kind = "replay404"
      /\ HandlerOK(r)'
  BY <1>2, FinishOK
<1> USE DEF settings, tracker, client
<1>4. TypeOK'
  BY <1>1, <1>3 DEF IInv, TypeOK
<1>5. \A p \in Requests : HandlerOK(p)'
  BY <1>1, <1>3, OthersOK DEF Grows
<1>6. \A s \in Sessions : SavedOK(s)'
  BY <1>1, SavedStaysOK DEF Grows
<1>7. RecordsAreTrue'
  BY <1>1 DEF IInv, RecordsAreTrue, TrueRecords
<1>8. NoReplayError'
  BY <1>1, <1>2, <1>3 DEF IInv, HandlerOK, ReplayOK, NoReplayError, NoRejection
<1>9. DeliveredIsRecorded'
  BY <1>1, <1>3 DEF IInv, DeliveredIsRecorded
<1> QED BY <1>4, <1>5, <1>6, <1>7, <1>8, <1>9 DEF IInv

-----------------------------------------------------------------------------
(* Steps that end a request without a rejection: what they record is of the  *)
(* route it is recorded for, what they deliver is recorded.                 *)
Ends(r, kind, items, minted) ==
  /\ Finish(r, kind)
  /\ UNCHANGED <<settings, restarts>>
  /\ disturbed \subseteq disturbed' /\ disturbed' \subseteq Disturbances
  /\ \/ UNCHANGED tracker
     \/ /\ Record(r, minted)
        /\ InFlight(r)
        /\ disturbed' \subseteq {"batch"} =>
             \A i \in req[r].input \cup minted : MintedBy[i] = req[r].print
  /\ saved' \in [Sessions -> (SUBSET Items) \cup {None}]
  /\ \A s \in Sessions : saved'[s] \in {None, saved[s]} \/ SavedOK(s)'
  /\ Deliver(r, items) \/ (items = {} /\ UNCHANGED client)
  /\ "flight" \notin disturbed' =>
       /\ \A i \in items : i \in accepted'[SessionOf[r]][MintedBy[i]]
       /\ pc[r] = "relay" =>
            \A i \in req[r].reply : i \in accepted'[SessionOf[r]][MintedBy[i]]

LEMMA EndIInv ==
  ASSUME IInv, NEW r \in Requests, NEW kind \in {"ok", "error"},
         NEW items \in SUBSET Items, NEW minted \in SUBSET Items,
         Ends(r, kind, items, minted)
  PROVE  IInv'
<1>1. /\ pc' \in [Requests -> {"idle", "body", "hook", "post", "relay"}]
      /\ req' \in [Requests -> Locals]
      /\ answer' \in [Requests -> Answers]
      /\ pc'[r] = "idle"
      /\ \A p \in Requests \ {r} : pc'[p] = pc[p] /\ req'[p] = req[p]
      /\ \A p \in Requests : answer'[p] = "replay404" => answer[p] = "replay404"
      /\ HandlerOK(r)'
  <2>1. kind \in Answers /\ kind # "replay404"
    BY DEF Answers
  <2> QED BY <2>1, FinishOK DEF Ends
<1>2. /\ accepted' \in [Sessions -> [Routes -> SUBSET Items]]
      /\ lastRoute' \in [Sessions -> Routes \cup {None}]
      /\ Grows
      /\ RecordsAreTrue'
  <2>1. CASE UNCHANGED tracker
    BY <2>1 DEF Ends, IInv, TypeOK, tracker, Grows, RecordsAreTrue, TrueRecords
  <2>2. CASE ~UNCHANGED tracker
    <3>1. req[r].print # None
      BY <2>2 DEF Ends, IInv, TypeOK, InFlight
    <3>2. /\ Record(r, minted)
          /\ disturbed \subseteq disturbed'
          /\ disturbed' \subseteq {"batch"} =>
               \A i \in req[r].input \cup minted : MintedBy[i] = req[r].print
      BY <2>2 DEF Ends
    <3> QED BY <3>1, <3>2, RecordFacts, TruthKept DEF IInv
  <2> QED BY <2>1, <2>2
<1>3. address' = address
  BY DEF Ends, settings
<1>4. \A p \in Requests : HandlerOK(p)'
  BY <1>1, <1>2, <1>3, OthersOK DEF Ends
<1>5. \A s \in Sessions : SavedOK(s)'
  BY <1>2, <1>3, SavedStaysOK DEF Ends
<1>6. /\ history' \in [Sessions -> SUBSET Items]
      /\ unknown' \in [Sessions -> SUBSET Items]
      /\ DeliveredIsRecorded'
  BY <1>1, <1>2, DeliveryKept DEF Ends
<1>7. TypeOK'
  <2>1. ASSUME NEW p \in Requests, pc'[p] \in {"hook", "post", "relay"}
        PROVE  req'[p].print # None /\ req'[p].target # None
    BY <1>1, <2>1 DEF IInv, TypeOK
  <2> QED BY <1>1, <1>2, <1>6, <2>1 DEF Ends, IInv, TypeOK, settings
<1>8. NoReplayError'
  BY <1>1 DEF Ends, IInv, NoReplayError, NoRejection
<1> QED BY <1>2, <1>4, <1>5, <1>6, <1>7, <1>8 DEF IInv

(* A recorded redirect is noted as a disturbance of the records.            *)
LEMMA RedirectedIInv ==
  ASSUME IInv, NEW r \in Requests, Redirected(r)
  PROVE  IInv'
<1>1. /\ UNCHANGED <<settings, restarts, saved, client>>
      /\ pc[r] = "post"
      /\ Finish(r, "error")
      /\ disturbed \subseteq disturbed' /\ disturbed' \subseteq Disturbances
      /\ UNCHANGED tracker \/ (Record(r, {}) /\ ~(disturbed' \subseteq {"batch"}))
  BY DEF Redirected
<1>2. saved' \in [Sessions -> (SUBSET Items) \cup {None}]
  BY <1>1 DEF IInv, TypeOK
<1>3. "error" \in {"ok", "error"} /\ {} \in SUBSET Items /\ InFlight(r)
  BY <1>1 DEF InFlight
<1>4. Ends(r, "error", {}, {})
  BY <1>1, <1>2, <1>3 DEF Ends
<1> QED BY <1>4, EndIInv

(* The items of a final response are recorded when they are delivered.      *)
LEMMA SuccessIInv ==
  ASSUME IInv, NEW r \in Requests, NEW items \in SUBSET Items, Success(r, items)
  PROVE  IInv'
<1>1. /\ UNCHANGED <<settings, restarts, saved, disturbed>>
      /\ Accepts(r, items)
      /\ Record(r, items)
      /\ Deliver(r, items)
      /\ Finish(r, "ok")
  BY DEF Success
<1>2. /\ pc[r] = "post"
      /\ req[r].print \in Routes
      /\ \A i \in req[r].input \cup items : MintedBy[i] = req[r].target
      /\ "flight" \notin disturbed => req[r].print = Current(r) /\ req[r].target = Current(r)
  BY <1>1, AcceptFacts
<1>3. items \subseteq accepted'[SessionOf[r]][req[r].print]
  BY <1>1, <1>2, RecordFacts DEF IInv
<1>4. InFlight(r) /\ saved' \in [Sessions -> (SUBSET Items) \cup {None}]
  BY <1>1, <1>2 DEF IInv, TypeOK, InFlight
<1>5. Ends(r, "ok", items, items)
  BY <1>1, <1>2, <1>3, <1>4 DEF Ends, IInv, TypeOK
<1> QED BY <1>5, EndIInv

(* The response of a relay is of the request's route, and is recorded now.   *)
LEMMA RecordRelayedIInv ==
  ASSUME IInv, NEW r \in Requests, RecordRelayed(r)
  PROVE  IInv'
<1> DEFINE items == req[r].reply
<1>1. /\ UNCHANGED <<settings, restarts, saved, client, disturbed>>
      /\ pc[r] = "relay"
      /\ Record(r, items)
      /\ Finish(r, "ok")
  BY DEF RecordRelayed
<1>2. /\ items \in SUBSET Items
      /\ req[r].print \in Routes
      /\ saved' \in [Sessions -> (SUBSET Items) \cup {None}]
  BY <1>1 DEF IInv, TypeOK, Locals
<1>3. "flight" \notin disturbed =>
        \A i \in req[r].input \cup items : MintedBy[i] = req[r].print
  BY <1>1 DEF IInv, HandlerOK, LocalOK, RouteOK, InFlight, Foreign, MintedOn
<1>4. items \subseteq accepted'[SessionOf[r]][req[r].print]
  BY <1>1, <1>2, RecordFacts DEF IInv
<1>5. InFlight(r) /\ {} \in SUBSET Items
  BY <1>1 DEF InFlight
<1>6. Ends(r, "ok", {}, items)
  BY <1>1, <1>2, <1>3, <1>4, <1>5 DEF Ends, IInv, TypeOK
<1> QED BY <1>2, <1>5, <1>6, EndIInv

(* The items of a saved response are recorded before it is saved.           *)
LEMMA DeferIInv ==
  ASSUME IInv, NEW r \in Requests, NEW items \in SUBSET Items, Defer(r, items)
  PROVE  IInv'
<1> DEFINE s == SessionOf[r]
<1>1. /\ UNCHANGED <<settings, restarts, client, disturbed>>
      /\ Accepts(r, items)
      /\ Record(r, items)
      /\ saved' = [saved EXCEPT ![s] = items]
      /\ Finish(r, "ok")
  BY DEF Defer
<1>2. /\ pc[r] = "post"
      /\ req[r].print \in Routes
      /\ \A i \in req[r].input \cup items : MintedBy[i] = req[r].target
      /\ "flight" \notin disturbed => req[r].print = Current(r) /\ req[r].target = Current(r)
  BY <1>1, AcceptFacts
<1>3. /\ items \subseteq accepted'[s][req[r].print]
      /\ lastRoute'[s] # None
  BY <1>1, <1>2, RecordFacts DEF IInv
<1>4. /\ saved' \in [Sessions -> (SUBSET Items) \cup {None}]
      /\ saved'[s] = items
      /\ \A t \in Sessions \ {s} : saved'[t] = saved[t]
  BY <1>1 DEF IInv, TypeOK
<1>5. SavedOK(s)'
  BY <1>1, <1>2, <1>3, <1>4 DEF SavedOK, Recorded, settings
<1>6. InFlight(r) /\ {} \in SUBSET Items /\ "ok" \in {"ok", "error"}
  BY <1>2 DEF InFlight
<1>7. Ends(r, "ok", {}, items)
  BY <1>1, <1>2, <1>4, <1>5, <1>6 DEF Ends, IInv, TypeOK
<1> QED BY <1>7, EndIInv

(* What the hook allows was recorded before.                                *)
LEMMA HookEndsIInv ==
  ASSUME IInv, NEW r \in Requests, HookAllows(r) \/ HookErrs(r)
  PROVE  IInv'
<1>1. /\ UNCHANGED <<settings, restarts, tracker, disturbed>>
      /\ pc[r] = "hook"
      /\ ClearSaved(r) \/ UNCHANGED saved
      /\ \/ Deliver(r, req[r].reply) /\ Finish(r, "ok")
         \/ UNCHANGED client /\ Finish(r, "error")
  BY DEF HookAllows, HookErrs
<1>2. /\ saved' \in [Sessions -> (SUBSET Items) \cup {None}]
      /\ \A s \in Sessions : saved'[s] \in {None, saved[s]}
  BY <1>1 DEF IInv, TypeOK, ClearSaved
<1>3. /\ req[r].reply \in SUBSET Items
      /\ {} \in SUBSET Items
      /\ "flight" \notin disturbed =>
           \A i \in req[r].reply : i \in accepted'[SessionOf[r]][MintedBy[i]]
  BY <1>1 DEF IInv, TypeOK, Locals, HandlerOK, RouteOK, Recorded, tracker
<1>4. CASE Deliver(r, req[r].reply) /\ Finish(r, "ok")
  <2>1. Ends(r, "ok", req[r].reply, {})
    BY <1>1, <1>2, <1>3, <1>4 DEF Ends, IInv, TypeOK
  <2> QED BY <1>3, <2>1, EndIInv
<1>5. CASE UNCHANGED client /\ Finish(r, "error")
  <2>1. Ends(r, "error", {}, {})
    BY <1>1, <1>2, <1>3, <1>5 DEF Ends, IInv, TypeOK
  <2> QED BY <1>3, <2>1, EndIInv
<1> QED BY <1>1, <1>4, <1>5

-----------------------------------------------------------------------------
(* Steps that go on with an accepted response                               *)

(* In each of them the handler records the items or relays them; q are its   *)
(* new locals.                                                              *)
LEMMA NextTurnIInv ==
  ASSUME IInv, NEW r \in Requests, NEW items \in SUBSET Items, NextTurn(r, items)
  PROVE  IInv'
<1> DEFINE q == [req[r] EXCEPT !.input = @ \cup items, !.turn = @ + 1,
                               !.target = Current(r)]
<1>1. /\ UNCHANGED <<settings, restarts, saved, client, pc, answer, disturbed>>
      /\ Accepts(r, items)
      /\ req[r].turn + 1 < MaxTurns
      /\ Record(r, items)
      /\ req' = [req EXCEPT ![r] = q]
  BY DEF NextTurn
<1>2. /\ pc[r] = "post"
      /\ req[r].print \in Routes /\ req[r].target \in Routes
      /\ \A i \in req[r].input \cup items : MintedBy[i] = req[r].target
      /\ "flight" \notin disturbed => req[r].print = Current(r) /\ req[r].target = Current(r)
  BY <1>1, AcceptFacts
<1>3. /\ q \in Locals
      /\ q.print = req[r].print /\ q.target = Current(r)
      /\ q.input = req[r].input \cup items
      /\ Current(r) \in Routes
  <2>1. req[r] \in Locals /\ Current(r) \in Routes
    BY <1>1, <1>2, CurrentType DEF IInv, TypeOK, InFlight
  <2>2. req[r].turn + 1 \in 0..(MaxTurns - 1) /\ req[r].input \cup items \in SUBSET Items
    BY <1>1, <2>1 DEF Locals
  <2> QED BY <2>1, <2>2 DEF Locals
<1> HIDE DEF q
<1>4. /\ accepted' \in [Sessions -> [Routes -> SUBSET Items]]
      /\ lastRoute' \in [Sessions -> Routes \cup {None}]
      /\ Grows
  BY <1>1, <1>2, RecordFacts DEF IInv
<1> USE DEF settings, client
<1>5. /\ pc'[r] = "post" /\ req'[r] = q
      /\ \A p \in Requests \ {r} : pc'[p] = pc[p] /\ req'[p] = req[p]
  BY <1>1, <1>2 DEF IInv, TypeOK
<1>6. TypeOK'
  BY <1>1, <1>2, <1>3, <1>4, <1>5 DEF IInv, TypeOK
<1>13. Current(r)' = Current(r)
  BY <1>1, <1>3, <1>5 DEF Current
<1>7. HandlerOK(r)'
  BY <1>1, <1>2, <1>3, <1>5, <1>13
     DEF HandlerOK, LocalOK, RouteOK, ReplayOK, InFlight, Foreign
<1>8. \A p \in Requests : HandlerOK(p)'
  BY <1>1, <1>4, <1>5, <1>7, OthersOK
<1>9. \A s \in Sessions : SavedOK(s)'
  BY <1>1, <1>4, SavedStaysOK
<1>10. RecordsAreTrue'
  BY <1>1, <1>2, TruthKept
<1>11. NoReplayError'
  BY <1>1 DEF IInv, NoReplayError, NoRejection
<1>12. DeliveredIsRecorded'
  BY <1>1, <1>2, <1>4, <1>5, {} \in SUBSET Items, DeliveryKept
<1> QED BY <1>6, <1>8, <1>9, <1>10, <1>11, <1>12 DEF IInv

(* The hook gets a response whose items are recorded.                       *)
LEMMA DirectHookIInv ==
  ASSUME IInv, NEW r \in Requests, NEW items \in SUBSET Items, DirectHook(r, items)
  PROVE  IInv'
<1> DEFINE q == [req[r] EXCEPT !.reply = items]
<1>1. /\ UNCHANGED <<settings, restarts, saved, client, answer, disturbed>>
      /\ Accepts(r, items)
      /\ Record(r, items)
      /\ req' = [req EXCEPT ![r] = q]
      /\ pc' = [pc EXCEPT ![r] = "hook"]
  BY DEF DirectHook
<1>2. /\ pc[r] = "post"
      /\ req[r].print \in Routes /\ req[r].target \in Routes
      /\ \A i \in req[r].input \cup items : MintedBy[i] = req[r].target
      /\ "flight" \notin disturbed => req[r].print = Current(r) /\ req[r].target = Current(r)
  BY <1>1, AcceptFacts
<1>3. /\ q \in Locals
      /\ q.print = req[r].print /\ q.target = req[r].target
      /\ q.input = req[r].input /\ q.reply = items
  <2>1. req[r] \in Locals
    BY DEF IInv, TypeOK
  <2> QED BY <2>1 DEF Locals
<1> HIDE DEF q
<1>4. /\ accepted' \in [Sessions -> [Routes -> SUBSET Items]]
      /\ lastRoute' \in [Sessions -> Routes \cup {None}]
      /\ Grows
      /\ items \subseteq accepted'[SessionOf[r]][req[r].print]
  BY <1>1, <1>2, RecordFacts DEF IInv
<1> USE DEF settings, client
<1>5. /\ pc'[r] = "hook" /\ req'[r] = q
      /\ \A p \in Requests \ {r} : pc'[p] = pc[p] /\ req'[p] = req[p]
  BY <1>1, <1>2 DEF IInv, TypeOK
<1>6. TypeOK'
  <2>1. /\ pc' \in [Requests -> {"idle", "body", "hook", "post", "relay"}]
        /\ req' \in [Requests -> Locals]
    BY <1>1, <1>3 DEF IInv, TypeOK
  <2> QED BY <1>1, <1>2, <1>3, <1>4, <1>5, <2>1 DEF IInv, TypeOK
<1>13. Current(r)' = Current(r)
  BY <1>1, <1>3, <1>5 DEF Current
<1>7. HandlerOK(r)'
  BY <1>1, <1>2, <1>3, <1>4, <1>5, <1>13
     DEF HandlerOK, LocalOK, RouteOK, ReplayOK, InFlight, Recorded, MintedOn
<1>8. \A p \in Requests : HandlerOK(p)'
  BY <1>1, <1>4, <1>5, <1>7, OthersOK
<1>9. \A s \in Sessions : SavedOK(s)'
  BY <1>1, <1>4, SavedStaysOK
<1>10. RecordsAreTrue'
  BY <1>1, <1>2, TruthKept
<1>11. NoReplayError'
  BY <1>1 DEF IInv, NoReplayError, NoRejection
<1>12. DeliveredIsRecorded'
  BY <1>1, <1>2, <1>4, <1>5, {} \in SUBSET Items, DeliveryKept
<1> QED BY <1>6, <1>8, <1>9, <1>10, <1>11, <1>12 DEF IInv

(* A relayed response is of the request's route.                            *)
LEMMA RelayIInv ==
  ASSUME IInv, NEW r \in Requests, NEW items \in SUBSET Items, Relay(r, items)
  PROVE  IInv'
<1> DEFINE q == [req[r] EXCEPT !.reply = items]
<1>1. /\ UNCHANGED <<settings, restarts, tracker, saved, answer, disturbed>>
      /\ Accepts(r, items)
      /\ Deliver(r, items)
      /\ req' = [req EXCEPT ![r] = q]
      /\ pc' = [pc EXCEPT ![r] = "relay"]
  BY DEF Relay
<1>2. /\ pc[r] = "post"
      /\ req[r].print \in Routes /\ req[r].target \in Routes
      /\ \A i \in req[r].input \cup items : MintedBy[i] = req[r].target
      /\ "flight" \notin disturbed => req[r].print = Current(r) /\ req[r].target = Current(r)
  BY <1>1, AcceptFacts
<1>3. /\ q \in Locals
      /\ q.print = req[r].print /\ q.target = req[r].target
      /\ q.input = req[r].input /\ q.reply = items
  <2>1. req[r] \in Locals
    BY DEF IInv, TypeOK
  <2> QED BY <2>1 DEF Locals
<1> HIDE DEF q
<1> USE DEF settings, tracker
<1>4. Grows
  BY <1>1 DEF Grows
<1>5. /\ pc'[r] = "relay" /\ req'[r] = q
      /\ \A p \in Requests \ {r} : pc'[p] = pc[p] /\ req'[p] = req[p]
  BY <1>1, <1>2 DEF IInv, TypeOK
<1>6. /\ history' \in [Sessions -> SUBSET Items]
      /\ unknown' \in [Sessions -> SUBSET Items]
      /\ DeliveredIsRecorded'
  BY <1>1, <1>2, <1>3, <1>4, <1>5, DeliveryKept
<1>7. TypeOK'
  <2>1. /\ pc' \in [Requests -> {"idle", "body", "hook", "post", "relay"}]
        /\ req' \in [Requests -> Locals]
    BY <1>1, <1>3 DEF IInv, TypeOK
  <2> QED BY <1>1, <1>2, <1>3, <1>5, <1>6, <2>1 DEF IInv, TypeOK
<1>13. Current(r)' = Current(r)
  BY <1>1, <1>3, <1>5 DEF Current
<1>8. HandlerOK(r)'
  BY <1>1, <1>2, <1>3, <1>5, <1>13
     DEF HandlerOK, LocalOK, RouteOK, ReplayOK, InFlight, Foreign, MintedOn
<1>9. \A p \in Requests : HandlerOK(p)'
  BY <1>1, <1>4, <1>5, <1>8, OthersOK
<1>10. \A s \in Sessions : SavedOK(s)'
  BY <1>1, <1>4, SavedStaysOK
<1>11. RecordsAreTrue' /\ NoReplayError'
  BY <1>1 DEF IInv, RecordsAreTrue, TrueRecords, NoReplayError, NoRejection
<1> QED BY <1>6, <1>7, <1>9, <1>10, <1>11 DEF IInv

(* What a blocked response adds to the input is, unless noted, of the        *)
(* route it is posted to.                                                   *)
LEMMA HookBlocksIInv ==
  ASSUME IInv, NEW r \in Requests, HookBlocks(r)
  PROVE  IInv'
<1> DEFINE q == [req[r] EXCEPT !.mode = "decision", !.target = Current(r),
                               !.input = @ \cup req[r].reply, !.reply = {}]
<1>1. /\ UNCHANGED <<settings, restarts, tracker, client, answer>>
      /\ pc[r] = "hook"
      /\ disturbed \subseteq disturbed' /\ disturbed' \subseteq Disturbances
      /\ disturbed' \subseteq disturbed \cup {"batch"}
      /\ disturbed' = {} => MintedOn(Current(r), req[r].reply)
      /\ ClearSaved(r)
      /\ req' = [req EXCEPT ![r] = q]
      /\ pc' = [pc EXCEPT ![r] = "post"]
  BY DEF HookBlocks, MintedOn
<1>2. /\ req[r] \in Locals /\ Current(r) \in Routes /\ req[r].print # None
      /\ "flight" \notin disturbed => req[r].print = Current(r)
      /\ disturbed = {} => MintedOn(req[r].print, req[r].input)
  BY <1>1, CurrentType DEF IInv, TypeOK, HandlerOK, RouteOK, ReplayOK, InFlight
<1>3. /\ q \in Locals
      /\ q.print = req[r].print /\ q.target = Current(r)
      /\ q.input = req[r].input \cup req[r].reply
  BY <1>2 DEF Locals, Modes
<1> HIDE DEF q
<1> USE DEF settings, tracker, client
<1>4. Grows
  BY <1>1 DEF Grows
<1>5. /\ pc'[r] = "post" /\ req'[r] = q
      /\ \A p \in Requests \ {r} : pc'[p] = pc[p] /\ req'[p] = req[p]
  BY <1>1 DEF IInv, TypeOK
<1>6. /\ saved' \in [Sessions -> (SUBSET Items) \cup {None}]
      /\ \A s \in Sessions : saved'[s] \in {None, saved[s]}
  BY <1>1 DEF IInv, TypeOK, ClearSaved
<1>7. TypeOK'
  <2>1. /\ pc' \in [Requests -> {"idle", "body", "hook", "post", "relay"}]
        /\ req' \in [Requests -> Locals]
    BY <1>1, <1>3 DEF IInv, TypeOK
  <2> QED BY <1>1, <1>2, <1>3, <1>5, <1>6, <2>1 DEF IInv, TypeOK
<1>13. Current(r)' = Current(r)
  BY <1>1, <1>3, <1>5 DEF Current
<1>14. LocalOK(r)' /\ RouteOK(r)'
  BY <1>1, <1>2, <1>3, <1>5, <1>13 DEF LocalOK, RouteOK, InFlight
<1>15. ASSUME disturbed' = {} PROVE Foreign(r)' = {}
  <2>1. /\ MintedOn(Current(r), req[r].reply)
        /\ MintedOn(Current(r), req[r].input)
    BY <1>1, <1>2, <1>15
  <2> QED BY <1>3, <1>5, <2>1 DEF Foreign, MintedOn
<1>8. HandlerOK(r)'
  BY <1>5, <1>14, <1>15 DEF HandlerOK, ReplayOK
<1>9. \A p \in Requests : HandlerOK(p)'
  BY <1>1, <1>4, <1>5, <1>8, OthersOK
<1>10. \A s \in Sessions : SavedOK(s)'
  BY <1>1, <1>4, <1>6, SavedStaysOK
<1>11. RecordsAreTrue' /\ NoReplayError'
  BY <1>1 DEF IInv, RecordsAreTrue, TrueRecords, NoReplayError, NoRejection
<1>12. DeliveredIsRecorded'
  BY <1>1, <1>5 DEF IInv, DeliveredIsRecorded
<1> QED BY <1>7, <1>9, <1>10, <1>11, <1>12 DEF IInv

-----------------------------------------------------------------------------

(* Every reachable state satisfies the inductive invariant.                 *)
THEOREM Invariance == Spec => []IInv
<1>1. IInv /\ [Next]_vars => IInv'
  <2> SUFFICES ASSUME IInv, [Next]_vars PROVE IInv'
    OBVIOUS
  <2>1. CASE Switch \/ Restart \/ UNCHANGED vars
    BY <2>1, SwitchIInv, RestartIInv, StutterIInv
  <2>2. ASSUME NEW r \in Requests, Handler(r)
        PROVE  IInv'
    BY <2>2, ArriveIInv, BeginIInv, RetryIInv, FailIInv, RedirectedIInv,
       SuccessIInv, NextTurnIInv, RelayIInv, DeferIInv, DirectHookIInv,
       RecordRelayedIInv, HookEndsIInv, HookBlocksIInv DEF Handler
  <2> QED BY <2>1, <2>2 DEF Next
<1> QED BY <1>1, InitIInv, PTL DEF Spec

(* Every variable keeps its type; a prepared request has a fingerprint and a *)
(* target.                                                                  *)
THEOREM TypeCorrect == Spec => []TypeOK
<1>1. IInv => TypeOK
  BY DEF IInv
<1> QED BY <1>1, Invariance, PTL

(* As long as no upstream switches under a request and no redirect is recorded, *)
(* the records of SessionTracker are true of the upstream.                  *)
THEOREM RecordsStayTrue == Spec => []RecordsAreTrue
<1>1. IInv => RecordsAreTrue
  BY DEF IInv
<1> QED BY <1>1, Invariance, PTL

(* Undisturbed, no client sees its encrypted items rejected.                *)
THEOREM ItemsAreNotRejected == Spec => []NoReplayError
<1>1. IInv => NoReplayError
  BY DEF IInv
<1> QED BY <1>1, Invariance, PTL

(* What was delivered since the start is recorded or about to be.           *)
THEOREM DeliveriesAreRecorded == Spec => []DeliveredIsRecorded
<1>1. IInv => DeliveredIsRecorded
  BY DEF IInv
<1> QED BY <1>1, Invariance, PTL

=============================================================================
