--------------------------- MODULE CreditsWindowProofs ---------------------------
(***************************************************************************)
(* Proofs about CreditsWindow, for any requests and providers, and any      *)
(* number of posts, loops and checks.                                       *)
(***************************************************************************)
EXTENDS CreditsWindow, FiniteSetTheorems, TLAPS

USE MeteredAssumption, BoundsAssumption

-----------------------------------------------------------------------------
(* Types                                                                    *)

Request == [phase : {"idle", "open", "billed", "done"}, start : Nat,
            from : Providers, by : Providers, posts : 0..MaxPosts]
Loop == [phase : Live \cup {"none", "ended"}, provider : Providers, remote : Nat,
         status : {"ok", "mismatch"}, clean : BOOLEAN, excused : BOOLEAN]
Snapshot == [provider : Metered, at : 1..clock, usage : Nat,
             status : {"ok", "mismatch"}, clean : BOOLEAN, excused : BOOLEAN]

TypeInv ==
  /\ clock \in Nat
  /\ provider \in Providers
  /\ usage \in [Providers -> Nat]
  /\ req \in [Requests -> Request]
  /\ \A r \in InFlight : req[r].start \in 1..clock
  /\ \A row \in rows : row.req \in Requests /\ row.at \in 1..clock /\ row.cost \in {0, 1}
  /\ snaps \subseteq Snapshot
  /\ active \in Providers
  /\ task \in 0..MaxTasks
  /\ loop \in [Tasks -> Loop]
  /\ service \in {"running", "stopping", "stopped"}
  /\ lost \subseteq Providers

(* There is one loop at most, the one the checker knows unless it has been  *)
(* stopped, and its provider is metered.                                    *)
LoopInv ==
  /\ \A t \in Tasks : loop[t].phase \in Live =>
       active \in Metered /\ (service # "stopped" => t = task)
  /\ \A t, u \in Tasks : loop[t].phase \in Live /\ loop[u].phase \in Live => t = u
  /\ \A t \in Tasks : loop[t].phase \in {"asking", "answered", "alerting"} => loop[t].provider \in Metered

LEMMA Records ==
  ASSUME provider \in Providers
  PROVE  /\ NoRequest \in Request /\ Finished \in Request
         /\ NoRequest.phase = "idle" /\ Finished.phase = "done"
         /\ NoLoop \in Loop
         /\ \A x \in Live \cup {"none", "ended"} :
              [NoLoop EXCEPT !.phase = x] \in Loop /\ [NoLoop EXCEPT !.phase = x].phase = x
<1> DEFINE p == CHOOSE q \in Providers : TRUE
<1>1. p \in Providers
  OBVIOUS
<1>2. /\ NoRequest = [phase |-> "idle", start |-> 0, from |-> p, by |-> p, posts |-> 0]
      /\ NoLoop = [phase |-> "none", provider |-> p, remote |-> 0,
                   status |-> "ok", clean |-> TRUE, excused |-> FALSE]
  BY DEF NoRequest, NoLoop
<1> HIDE DEF p
<1>3. NoRequest \in Request /\ Finished \in Request /\ NoRequest.phase = "idle" /\ Finished.phase = "done"
  BY <1>1, <1>2 DEF Finished, Request
<1>4. NoLoop \in Loop
  BY <1>1, <1>2 DEF Loop
<1>5. \A x \in Live \cup {"none", "ended"} :
        [NoLoop EXCEPT !.phase = x] \in Loop /\ [NoLoop EXCEPT !.phase = x].phase = x
  BY <1>4 DEF Loop
<1> QED BY <1>3, <1>4, <1>5

LEMMA InitTypes == Init => TypeInv /\ LoopInv
<1> SUFFICES ASSUME Init PROVE TypeInv /\ LoopInv
  OBVIOUS
<1>1. provider \in Providers /\ active = provider /\ task = IF provider \in Metered THEN 1 ELSE 0
  BY DEF Init
<1>2. 1 \in Tasks
  BY DEF Tasks
<1>3. \A t \in Tasks : loop[t] = [NoLoop EXCEPT !.phase = IF t = task THEN "sleeping" ELSE "none"]
  BY DEF Init
<1>4. \A t \in Tasks : loop[t] \in Loop /\ loop[t].phase = IF t = task THEN "sleeping" ELSE "none"
  BY <1>1, <1>3, Records DEF Live
<1>5. loop \in [Tasks -> Loop]
  BY <1>4 DEF Init
<1>6. InFlight = {} /\ req \in [Requests -> Request]
  BY <1>1, Records DEF Init, InFlight
<1>7. TypeInv
  BY <1>1, <1>5, <1>6 DEF Init, TypeInv
<1>8. LoopInv
  <2>1. \A t \in Tasks : loop[t].phase \in Live => t = task
    BY <1>4 DEF Live
  <2>2. \A t \in Tasks : t = task => active \in Metered
    BY <1>1 DEF Tasks
  <2>3. \A t \in Tasks : loop[t].phase \notin {"asking", "answered", "alerting"}
    BY <1>4
  <2> QED BY <2>1, <2>2, <2>3 DEF LoopInv
<1> QED BY <1>7, <1>8

(* Rows and snapshots keep their types as time goes on.                     *)
LEMMA SnapshotGrows ==
  ASSUME clock \in Nat, clock' \in Nat, clock <= clock'
  PROVE  Snapshot \subseteq Snapshot'
BY DEF Snapshot

LEMMA StartTypes ==
  ASSUME TypeInv, LoopInv, NEW r \in Requests, Start(r)
  PROVE  TypeInv' /\ LoopInv'
<1> USE DEF TypeInv
<1>1. /\ clock' = clock + 1 /\ req[r].phase = "idle"
      /\ UNCHANGED <<provider, usage, rows, snaps, active, task, checks, service, lost>>
      /\ loop' = [t \in Tasks |-> [loop[t] EXCEPT !.clean = @ /\ loop[t].phase \notin {"answered", "alerting"}]]
      /\ req' = [req EXCEPT ![r].phase = "open", ![r].start = clock', ![r].from = provider]
  BY DEF Start
<1>2. Snapshot \subseteq Snapshot'
  BY <1>1, SnapshotGrows
<1>3. \A t \in Tasks : /\ loop'[t] \in Loop
                       /\ loop'[t].phase = loop[t].phase /\ loop'[t].provider = loop[t].provider
  <2> SUFFICES ASSUME NEW t \in Tasks
               PROVE  /\ loop'[t] \in Loop
                      /\ loop'[t].phase = loop[t].phase /\ loop'[t].provider = loop[t].provider
    OBVIOUS
  <2> PICK b \in BOOLEAN : b <=> loop[t].clean /\ loop[t].phase \notin {"answered", "alerting"}
    OBVIOUS
  <2>1. loop'[t] = [loop[t] EXCEPT !.clean = b]
    BY <1>1
  <2> QED BY <2>1 DEF Loop
<1>4. loop' \in [Tasks -> Loop]
  BY <1>1, <1>3
<1>5. /\ req'[r] = [phase |-> "open", start |-> clock + 1, from |-> provider, by |-> req[r].by, posts |-> req[r].posts]
      /\ \A q \in Requests : q # r => req'[q] = req[q]
      /\ DOMAIN req' = Requests /\ req' = [q \in Requests |-> req'[q]]
  BY <1>1 DEF Request
<1>6. req'[r] \in Request
  BY <1>5 DEF Request
<1>7. req' \in [Requests -> Request]
  BY <1>5, <1>6
<1>8. \A q \in InFlight' : req'[q].start \in 1..clock'
  BY <1>1, <1>5 DEF InFlight
<1>9. \A row \in rows' : row.req \in Requests /\ row.at \in 1..clock' /\ row.cost \in {0, 1}
  BY <1>1
<1>10. TypeInv'
  <2>1. snaps' \subseteq Snapshot'
    BY <1>1, <1>2
  <2>2. clock' \in Nat /\ UNCHANGED <<provider, usage, active, task, service, lost>>
    BY <1>1
  <2> QED BY <1>4, <1>7, <1>8, <1>9, <2>1, <2>2
<1>11. LoopInv'
  BY <1>1, <1>3 DEF LoopInv
<1> QED BY <1>10, <1>11

(* A handler goes on; the checker does not see it.                          *)
LEMMA HandlerTypes ==
  ASSUME TypeInv, LoopInv, NEW r \in Requests, Bill(r) \/ Record(r) \/ Abandon(r)
  PROVE  TypeInv' /\ LoopInv'
<1>1. UNCHANGED <<clock, provider, snaps, active, task, loop, service>>
  BY DEF Bill, Record, Abandon, checker
<1>2. req[r] \in Request /\ Finished \in Request /\ Finished.phase = "done" /\ lost \subseteq Providers
  BY Records DEF TypeInv
<1>3. r \in InFlight /\ req[r].start \in 1..clock
  BY DEF TypeInv, InFlight, Bill, Record, Abandon
<1>4. /\ usage' \in [Providers -> Nat]
      /\ req' \in [Requests -> Request]
      /\ \A q \in Requests : q # r => req'[q] = req[q]
      /\ req'[r].phase = "done" \/ req'[r].start = req[r].start
      /\ \A row \in rows' : row.req \in Requests /\ row.at \in 1..clock /\ row.cost \in {0, 1}
      /\ lost' \subseteq Providers
  <2>1. CASE Bill(r)
    <3> PICK p \in {req[r].from, provider} :
          /\ req' = [req EXCEPT ![r].phase = "billed", ![r].by = p, ![r].posts = @ + 1]
          /\ usage' = [usage EXCEPT ![p] = @ + 1]
      BY <2>1 DEF Bill
    <3>1. p \in Providers /\ req[r].posts \in 0..MaxPosts /\ req[r].posts < MaxPosts
      BY <1>2, <2>1 DEF TypeInv, Request, Bill
    <3>2. usage' \in [Providers -> Nat]
      BY <3>1 DEF TypeInv
    <3>3. req[r].posts + 1 \in 0..MaxPosts
      BY <3>1
    <3>4. /\ req'[r] = [phase |-> "billed", start |-> req[r].start, from |-> req[r].from,
                        by |-> p, posts |-> req[r].posts + 1]
          /\ \A q \in Requests : q # r => req'[q] = req[q]
          /\ DOMAIN req' = Requests /\ req' = [q \in Requests |-> req'[q]]
      BY <1>2, Zenon DEF TypeInv, Request
    <3>5. req'[r] \in Request
      BY <1>2, <3>1, <3>3, <3>4 DEF Request
    <3>6. req' \in [Requests -> Request]
      BY <3>4, <3>5 DEF TypeInv
    <3>7. rows' = rows /\ lost' = lost
      BY <2>1 DEF Bill
    <3> QED BY <1>2, <3>2, <3>4, <3>6, <3>7 DEF TypeInv
  <2>2. CASE Record(r)
    <3> PICK q \in {req[r].from, provider}, next \in {"open", "done"}, cost \in {0, 1} :
         /\ rows' = rows \cup {[req |-> r, post |-> req[r].posts, at |-> req[r].start,
                                provider |-> RowProvider[q], cost |-> cost]}
         /\ req' = [req EXCEPT ![r] = IF next = "done" THEN Finished ELSE [@ EXCEPT !.phase = next]]
         /\ lost' \subseteq lost \cup {q, req[r].by}
      BY <2>2 DEF Record
    <3>1. q \in Providers /\ req[r].by \in Providers
      BY <1>2 DEF TypeInv, Request
    <3>2. /\ req'[r] \in {Finished, [req[r] EXCEPT !.phase = "open"]}
          /\ \A x \in Requests : x # r => req'[x] = req[x]
          /\ DOMAIN req' = Requests /\ req' = [x \in Requests |-> req'[x]]
      BY DEF TypeInv
    <3>3. [req[r] EXCEPT !.phase = "open"] \in Request /\ [req[r] EXCEPT !.phase = "open"].start = req[r].start
      BY <1>2 DEF Request
    <3>4. req'[r] \in Request /\ (req'[r].phase = "done" \/ req'[r].start = req[r].start)
      BY <1>2, <3>2, <3>3
    <3>5. req' \in [Requests -> Request]
      BY <3>2, <3>4 DEF TypeInv
    <3>6. \A row \in rows' : row.req \in Requests /\ row.at \in 1..clock /\ row.cost \in {0, 1}
      BY <1>3 DEF TypeInv
    <3>7. usage' = usage
      BY <2>2 DEF Record
    <3> QED BY <1>2, <3>1, <3>2, <3>4, <3>5, <3>6, <3>7 DEF TypeInv
  <2>3. CASE Abandon(r)
    <3>1. /\ req' = [req EXCEPT ![r] = Finished]
          /\ lost' = IF req[r].phase = "billed" THEN lost \cup {req[r].by} ELSE lost
          /\ UNCHANGED <<usage, rows>>
      BY <2>3 DEF Abandon
    <3>2. req[r].by \in Providers
      BY <1>2 DEF Request
    <3> QED BY <1>2, <3>1, <3>2 DEF TypeInv
  <2> QED BY <2>1, <2>2, <2>3
<1>5. \A q \in InFlight' : req'[q].start \in 1..clock
  BY <1>3, <1>4 DEF TypeInv, InFlight
<1>6. Snapshot' = Snapshot
  BY <1>1 DEF Snapshot
<1>7. TypeInv'
  BY <1>1, <1>4, <1>5, <1>6 DEF TypeInv
<1>8. LoopInv'
  BY <1>1 DEF LoopInv
<1> QED BY <1>7, <1>8

(* A loop goes on and stores nothing.                                       *)
LEMMA LoopTypes ==
  ASSUME TypeInv, LoopInv, NEW t \in Tasks, NEW l \in Loop,
         loop' = [loop EXCEPT ![t] = l],
         loop[t].phase \in Live, l.phase \in {"asking", "answered", "alerting"} => l.provider \in Metered,
         UNCHANGED <<provider, usage, req, rows, active, task, service>>,
         clock' \in Nat, clock <= clock', snaps' \subseteq Snapshot', lost' \subseteq Providers
  PROVE  TypeInv' /\ LoopInv'
<1>1. /\ loop' \in [Tasks -> Loop]
      /\ loop'[t] = l
      /\ \A u \in Tasks : u # t => loop'[u] = loop[u]
  BY DEF TypeInv
<1>2. \A r \in InFlight' : req'[r].start \in 1..clock'
  BY DEF TypeInv, InFlight
<1>3. \A row \in rows' : row.req \in Requests /\ row.at \in 1..clock' /\ row.cost \in {0, 1}
  BY DEF TypeInv
<1>4. TypeInv'
  BY <1>1, <1>2, <1>3 DEF TypeInv
<1>5. LoopInv'
  BY <1>1 DEF LoopInv
<1> QED BY <1>4, <1>5

LEMMA StoreTypes ==
  ASSUME TypeInv, LoopInv, NEW t \in Tasks, loop[t].phase \in {"answered", "alerting"},
         NEW status \in {"ok", "mismatch"}, NEW excused \in BOOLEAN, Store(t, status, excused),
         UNCHANGED <<provider, usage, req, rows, active, task, service>>
  PROVE  TypeInv' /\ LoopInv'
<1>1. clock \in Nat /\ clock' = clock + 1
  BY DEF TypeInv, Store
<1>2. loop[t] \in Loop /\ loop[t].provider \in Metered /\ loop[t].phase \in Live
  BY DEF TypeInv, LoopInv, Live
<1>3. [provider |-> loop[t].provider, at |-> clock', usage |-> loop[t].remote,
       status |-> status, clean |-> loop[t].clean, excused |-> excused] \in Snapshot'
  BY <1>1, <1>2 DEF Loop, Snapshot
<1>4. snaps' \subseteq Snapshot'
  BY <1>1, <1>3, SnapshotGrows DEF TypeInv, Store
<1>5. [NoLoop EXCEPT !.phase = "sleeping"] \in Loop /\ [NoLoop EXCEPT !.phase = "sleeping"].phase = "sleeping"
  BY Records DEF TypeInv, Live
<1>6. lost' \subseteq Providers
  BY DEF TypeInv, Store
<1> PICK l : l = [NoLoop EXCEPT !.phase = "sleeping"]
  OBVIOUS
<1>7. loop' = [loop EXCEPT ![t] = l] /\ l \in Loop /\ l.phase = "sleeping"
  BY <1>5 DEF Store
<1>8. clock' \in Nat /\ clock <= clock'
  BY <1>1
<1> QED BY <1>2, <1>4, <1>6, <1>7, <1>8, LoopTypes

(* What Compare finds out.                                                  *)
LastOf(p) == IF Baselines(p) = {} THEN [usage |-> 0, at |-> 0, clean |-> FALSE]
             ELSE LastSnapshot(p)
StatusOf(t) == IF loop[t].remote = LastOf(loop[t].provider).usage
                                     + CostSince(loop[t].provider, LastOf(loop[t].provider).at)
               THEN "ok" ELSE "mismatch"
ExcusedOf(t) == ~loop[t].clean \/ ~LastOf(loop[t].provider).clean \/ loop[t].provider \in lost

LEMMA Comparison ==
  ASSUME NEW t \in Tasks, Compare(t)
  PROVE  /\ loop[t].phase = "answered"
         /\ \/ /\ StatusOf(t) = "ok"
               /\ Store(t, StatusOf(t), ExcusedOf(t))
            \/ /\ StatusOf(t) = "mismatch"
               /\ loop' = [loop EXCEPT ![t].phase = "alerting", ![t].status = StatusOf(t),
                                       ![t].excused = ExcusedOf(t)]
               /\ UNCHANGED <<clock, snaps, lost>>
         /\ UNCHANGED <<provider, log, active, task, checks, service>>
         /\ StatusOf(t) \in {"ok", "mismatch"} /\ ExcusedOf(t) \in BOOLEAN
BY DEF Compare, StatusOf, ExcusedOf, LastOf

LEMMA CheckTypes ==
  ASSUME TypeInv, LoopInv, NEW t \in Tasks, LoopStep(t)
  PROVE  TypeInv' /\ LoopInv'
<1> USE DEF log
<1>1. loop[t] \in Loop /\ clock \in Nat /\ snaps \subseteq Snapshot /\ lost \subseteq Providers /\ active \in Providers
  BY DEF TypeInv
<1>2. CASE Ask(t)
  <2>1. loop[t].phase \in Live /\ active \in Metered
    BY <1>2 DEF Ask, LoopInv, Live
  <2> DEFINE l == [loop[t] EXCEPT !.phase = "asking", !.provider = active]
  <2>2. l \in Loop /\ l.provider \in Metered
    BY <1>1, <2>1 DEF Loop, Live
  <2>3. loop' = [loop EXCEPT ![t] = l] /\ Snapshot' = Snapshot
    BY <1>2 DEF Ask, Snapshot
  <2> HIDE DEF l
  <2>4. /\ clock' \in Nat /\ clock <= clock' /\ snaps' \subseteq Snapshot' /\ lost' \subseteq Providers
        /\ UNCHANGED <<provider, usage, req, rows, active, task, service>>
    BY <1>1, <1>2, <2>3 DEF Ask
  <2> QED BY <2>1, <2>2, <2>3, <2>4, LoopTypes
<1>3. CASE Answer(t)
  <2>1. loop[t].phase \in Live /\ loop[t].provider \in Metered
    BY <1>3 DEF Answer, LoopInv, Live
  <2>2. usage[loop[t].provider] \in Nat
    BY <2>1 DEF TypeInv
  <2> PICK b \in BOOLEAN : b <=> InFlight = {}
    OBVIOUS
  <2> DEFINE l == [loop[t] EXCEPT !.phase = "answered", !.remote = usage[loop[t].provider], !.clean = b]
  <2>3. l \in Loop /\ l.provider \in Metered
    BY <1>1, <2>1, <2>2 DEF Loop, Live
  <2>4. loop' = [loop EXCEPT ![t] = l] /\ Snapshot' = Snapshot
    BY <1>3 DEF Answer, Snapshot
  <2> HIDE DEF l
  <2> QED BY <1>1, <1>3, <2>1, <2>3, <2>4, LoopTypes DEF Answer
<1>4. CASE Compare(t)
  <2>1. loop[t].phase \in Live /\ loop[t].provider \in Metered
    BY <1>4, Comparison DEF LoopInv, Live
  <2>2. CASE Store(t, StatusOf(t), ExcusedOf(t))
    BY <1>4, <2>2, Comparison, StoreTypes
  <2>3. CASE /\ loop' = [loop EXCEPT ![t].phase = "alerting", ![t].status = StatusOf(t),
                                       ![t].excused = ExcusedOf(t)]
             /\ UNCHANGED <<clock, snaps, lost>>
    <3> PICK status \in {"ok", "mismatch"}, excused \in BOOLEAN : status = StatusOf(t) /\ excused = ExcusedOf(t)
      BY <1>4, Comparison
    <3> DEFINE l == [loop[t] EXCEPT !.phase = "alerting", !.status = status, !.excused = excused]
    <3>1. l \in Loop /\ l.provider \in Metered
      BY <1>1, <2>1 DEF Loop, Live
    <3>2. loop' = [loop EXCEPT ![t] = l] /\ Snapshot' = Snapshot
      BY <2>3 DEF Snapshot
    <3>3. UNCHANGED <<provider, log, active, task, service>>
      BY <1>4, Comparison
    <3> HIDE DEF l
    <3>4. clock' \in Nat /\ clock <= clock' /\ snaps' \subseteq Snapshot' /\ lost' \subseteq Providers
      BY <1>1, <2>3, <3>2
    <3> QED BY <2>1, <3>1, <3>2, <3>3, <3>4, LoopTypes
  <2> QED BY <1>4, <2>2, <2>3, Comparison
<1>5. CASE Alerted(t)
  BY <1>1, <1>5, StoreTypes DEF Alerted, Loop
<1>6. CASE FetchFails(t)
  <2>1. [NoLoop EXCEPT !.phase = "reporting"] \in Loop /\ [NoLoop EXCEPT !.phase = "reporting"].phase = "reporting"
    BY Records DEF TypeInv, Live
  <2>2. Snapshot' = Snapshot
    BY <1>6 DEF FetchFails, Snapshot
  <2> PICK l : l = [NoLoop EXCEPT !.phase = "reporting"]
    OBVIOUS
  <2>3. /\ clock' \in Nat /\ clock <= clock' /\ snaps' \subseteq Snapshot' /\ lost' \subseteq Providers
        /\ UNCHANGED <<provider, usage, req, rows, active, task, service>>
    BY <1>1, <1>6, <2>2 DEF FetchFails
  <2>4. loop' = [loop EXCEPT ![t] = l] /\ loop[t].phase \in Live
    BY <1>6 DEF FetchFails, Live
  <2> QED BY <2>1, <2>3, <2>4, LoopTypes
<1>7. CASE Reported(t)
  <2> DEFINE l == [loop[t] EXCEPT !.phase = "sleeping"]
  <2>1. l \in Loop /\ l.phase = "sleeping"
    BY <1>1 DEF Loop, Live
  <2>2. loop' = [loop EXCEPT ![t] = l] /\ Snapshot' = Snapshot
    BY <1>7 DEF Reported, Snapshot
  <2> HIDE DEF l
  <2>3. /\ clock' \in Nat /\ clock <= clock' /\ snaps' \subseteq Snapshot' /\ lost' \subseteq Providers
        /\ UNCHANGED <<provider, usage, req, rows, active, task, service>>
    BY <1>1, <1>7, <2>2 DEF Reported
  <2>4. loop[t].phase \in Live
    BY <1>7 DEF Reported, Live
  <2> QED BY <2>1, <2>2, <2>3, <2>4, LoopTypes
<1> QED BY <1>2, <1>3, <1>4, <1>5, <1>6, <1>7 DEF LoopStep

(* Loops end and new ones begin.                                            *)
LEMMA LifeTypes ==
  ASSUME TypeInv, LoopInv,
         ReloadSettings \/ OnProviderChanged \/ BeginStop \/ EndStop \/ Restart \/ Purge
  PROVE  TypeInv' /\ LoopInv'
<1> USE DEF log, checker
<1>1. clock' = clock /\ usage' = usage /\ Snapshot' = Snapshot
  BY DEF ReloadSettings, OnProviderChanged, BeginStop, EndStop, Restart, Purge, Snapshot
<1> PICK asleep, over : asleep = [NoLoop EXCEPT !.phase = "sleeping"] /\ over = [NoLoop EXCEPT !.phase = "ended"]
  OBVIOUS
<1>2. asleep \in Loop /\ over \in Loop /\ asleep.phase = "sleeping" /\ over.phase = "ended"
  BY Records DEF TypeInv, Live
<1>3. CASE ReloadSettings
  <2>1. provider' \in Providers /\ UNCHANGED <<log, snaps, checker, service, lost>>
    BY <1>3 DEF ReloadSettings
  <2> QED BY <1>1, <2>1 DEF TypeInv, LoopInv, InFlight
<1>4. CASE OnProviderChanged
  <2>1. /\ service # "stopped"
        /\ active' = provider
        /\ task' = IF provider \in Metered THEN NextTask ELSE 0
        /\ provider \in Metered => NextTask \in Tasks
        /\ loop' = [t \in Tasks |-> IF t = task' THEN asleep ELSE IF t = task THEN over ELSE loop[t]]
        /\ UNCHANGED <<clock, provider, log, snaps, checks, service, lost>>
    BY <1>4 DEF OnProviderChanged
  <2>2. task' \in 0..MaxTasks /\ (task' # 0 => provider \in Metered)
    BY <2>1 DEF Tasks
  <2>3. loop' \in [Tasks -> Loop]
    BY <1>2, <2>1 DEF TypeInv
  <2>4. \A t \in Tasks : loop'[t].phase \in Live => t = task'
    BY <1>2, <2>1 DEF LoopInv, Live
  <2>5. \A t \in Tasks : loop'[t].phase \notin {"asking", "answered", "alerting"}
    BY <1>2, <2>1, <2>4 DEF Live
  <2>6. TypeInv'
    BY <1>1, <2>1, <2>2, <2>3 DEF TypeInv, InFlight
  <2>7. LoopInv'
    BY <2>1, <2>2, <2>4, <2>5 DEF LoopInv, Tasks
  <2> QED BY <2>6, <2>7
<1>5. CASE BeginStop
  <2>1. /\ service = "running" /\ service' = IF task = 0 THEN "stopped" ELSE "stopping"
        /\ loop' = [t \in Tasks |-> IF t = task THEN over ELSE loop[t]]
        /\ UNCHANGED <<clock, provider, log, snaps, active, task, checks, lost>>
    BY <1>5 DEF BeginStop
  <2>2. loop' \in [Tasks -> Loop]
    BY <1>2, <2>1 DEF TypeInv
  <2>3. \A t \in Tasks : loop'[t].phase \notin Live
    BY <1>2, <2>1 DEF LoopInv, Live
  <2>4. TypeInv'
    BY <1>1, <2>1, <2>2 DEF TypeInv, InFlight
  <2> QED BY <2>3, <2>4 DEF LoopInv, Live
<1>6. CASE EndStop
  <2>1. /\ service' = "stopped" /\ task' = 0
        /\ UNCHANGED <<clock, provider, log, snaps, active, loop, checks, lost>>
    BY <1>6 DEF EndStop
  <2>2. TypeInv'
    BY <1>1, <2>1 DEF TypeInv, InFlight
  <2> QED BY <2>1, <2>2 DEF LoopInv
<1>7. CASE Restart
  <2>1. /\ active' = provider /\ service' = "running"
        /\ task' = IF provider \in Metered THEN NextTask ELSE 0
        /\ provider \in Metered => NextTask \in Tasks
        /\ loop' = [t \in Tasks |-> IF t = task' THEN asleep ELSE IF t \in Started THEN over ELSE loop[t]]
        /\ req' = [r \in Requests |-> IF r \in InFlight THEN Finished ELSE req[r]]
        /\ lost' = lost \cup {req[r].by : r \in {x \in Requests : req[x].phase = "billed"}}
        /\ UNCHANGED <<clock, provider, usage, rows, snaps, checks>>
    BY <1>7 DEF Restart
  <2>2. task' \in 0..MaxTasks /\ (task' # 0 => provider \in Metered)
    BY <2>1 DEF Tasks
  <2>3. loop' \in [Tasks -> Loop]
    BY <1>2, <2>1 DEF TypeInv
  <2>4. \A t \in Tasks : t # task' => loop'[t].phase \notin Live
    BY <1>2, <2>1 DEF Started, Live
  <2>5. \A t \in Tasks : loop'[t].phase \notin {"asking", "answered", "alerting"}
    BY <1>2, <2>1, <2>4 DEF Live
  <2>6. Finished \in Request /\ Finished.phase = "done"
    BY Records DEF TypeInv
  <2>7. req' \in [Requests -> Request] /\ InFlight' = {}
    BY <2>1, <2>6 DEF TypeInv, InFlight
  <2>8. \A r \in Requests : req[r].by \in Providers
    BY DEF TypeInv, Request
  <2>9. TypeInv'
    BY <1>1, <2>1, <2>2, <2>3, <2>7, <2>8 DEF TypeInv
  <2> QED BY <2>1, <2>2, <2>4, <2>5, <2>9 DEF LoopInv, Tasks
<1>8. CASE Purge
  <2>1. /\ rows' \subseteq rows /\ snaps' \subseteq snaps
        /\ UNCHANGED <<clock, provider, usage, req, checker, service, lost>>
    BY <1>8 DEF Purge
  <2>2. TypeInv'
    BY <1>1, <2>1 DEF TypeInv, InFlight
  <2> QED BY <2>1, <2>2 DEF LoopInv
<1> QED BY <1>3, <1>4, <1>5, <1>6, <1>7, <1>8

LEMMA TypeStep ==
  ASSUME TypeInv, LoopInv, [Next]_vars
  PROVE  TypeInv' /\ LoopInv'
<1>1. CASE UNCHANGED vars
  <2>1. UNCHANGED <<clock, provider, usage, req, rows, snaps, active, task, loop, service, lost>>
    BY <1>1 DEF vars, log, checker
  <2>2. TypeInv'
    BY <2>1 DEF TypeInv, InFlight, Snapshot
  <2> QED BY <2>1, <2>2 DEF LoopInv
<1> QED BY <1>1, StartTypes, HandlerTypes, CheckTypes, LifeTypes DEF Next

LEMMA TypesHold == Spec => [](TypeInv /\ LoopInv)
<1>1. TypeInv /\ LoopInv /\ [Next]_vars => TypeInv' /\ LoopInv'
  BY TypeStep
<1> QED BY <1>1, InitTypes, PTL DEF Spec

(* The variables have their types; a snapshot is of a metered provider,     *)
(* whichever provider is selected when it is stored.                        *)
THEOREM TypeCorrect == Spec => []TypeOK
<1>1. TypeInv => TypeOK
  BY DEF TypeInv, TypeOK, Snapshot, Request, Loop
<1> QED BY <1>1, TypesHold, PTL

-----------------------------------------------------------------------------
(* Later baselines never have a lower usage.  The answer a loop holds is    *)
(* between the baselines it was asked after and what is billed now, and     *)
(* nobody else stores a baseline before this loop does.                     *)

Holds(t) == loop[t].phase \in {"answered", "alerting"}

OrderInv ==
  /\ \A s \in snaps : s.usage <= usage[s.provider]
  /\ \A t \in Tasks : Holds(t) =>
       /\ loop[t].remote <= usage[loop[t].provider]
       /\ \A s \in Baselines(loop[t].provider) : s.usage <= loop[t].remote
  /\ BaselineInOrder

(* Nothing is stored: what is billed grows, baselines may be purged, and a  *)
(* loop keeps its answer, gets one or has none.                             *)
LEMMA OrderKept ==
  ASSUME TypeInv, TypeInv', OrderInv, snaps' \subseteq snaps,
         \A p \in Providers : usage[p] <= usage'[p],
         \A t \in Tasks : Holds(t)' =>
           \/ Holds(t) /\ loop'[t].provider = loop[t].provider /\ loop'[t].remote = loop[t].remote
           \/ loop'[t].remote = usage'[loop'[t].provider]
  PROVE  OrderInv'
<1>1. \A s \in snaps : s.provider \in Providers /\ s.usage \in Nat /\ s.at \in Nat
  BY DEF TypeInv, Snapshot
<1>2. \A p \in Providers : usage[p] \in Nat /\ usage'[p] \in Nat
  BY DEF TypeInv
<1>3. \A t \in Tasks : /\ loop'[t].provider \in Providers /\ loop'[t].remote \in Nat
                       /\ loop[t].provider \in Providers /\ loop[t].remote \in Nat
  BY DEF TypeInv, Loop
<1>4. \A s \in snaps' : s.usage <= usage'[s.provider]
  BY <1>1, <1>2 DEF OrderInv
<1>5. ASSUME NEW t \in Tasks, Holds(t)'
      PROVE  /\ loop'[t].remote <= usage'[loop'[t].provider]
             /\ \A s \in snaps' : s.provider = loop'[t].provider => s.usage <= loop'[t].remote
  <2>1. CASE loop'[t].remote = usage'[loop'[t].provider]
    BY <1>2, <1>3, <1>4, <2>1
  <2>2. CASE Holds(t) /\ loop'[t].provider = loop[t].provider /\ loop'[t].remote = loop[t].remote
    <3>1. loop[t].remote <= usage[loop[t].provider]
      BY <2>2 DEF OrderInv
    <3>2. \A s \in snaps : s.provider = loop[t].provider => s.usage <= loop[t].remote
      BY <2>2 DEF OrderInv, Baselines
    <3>3. loop[t].remote <= usage'[loop[t].provider]
      BY <1>2, <1>3, <3>1
    <3> QED BY <2>2, <3>2, <3>3
  <2> QED BY <1>5, <2>1, <2>2
<1>6. BaselineInOrder'
  BY DEF OrderInv, BaselineInOrder
<1> QED BY <1>4, <1>5, <1>6 DEF OrderInv, Baselines

(* A loop stores its answer: the newest baseline, and no lower than those   *)
(* before it.                                                               *)
LEMMA OrderStored ==
  ASSUME TypeInv, LoopInv, OrderInv, usage' = usage,
         NEW t \in Tasks, Holds(t), NEW status, NEW excused, Store(t, status, excused)
  PROVE  OrderInv'
<1> DEFINE new == [provider |-> loop[t].provider, at |-> clock + 1, usage |-> loop[t].remote,
                   status |-> status, clean |-> loop[t].clean, excused |-> excused]
<1>1. /\ new.provider = loop[t].provider /\ new.at = clock + 1 /\ new.usage = loop[t].remote
      /\ snaps' = snaps \cup {new}
  BY DEF Store
<1> HIDE DEF new
<1>2. \A s \in snaps : s.at \in Nat /\ s.at < clock + 1 /\ clock \in Nat
  BY DEF TypeInv, Snapshot
<1>3. /\ loop[t].remote <= usage[loop[t].provider]
      /\ \A s \in snaps : s.provider = loop[t].provider => s.usage <= loop[t].remote
  BY DEF OrderInv, Baselines
<1>4. \A s \in snaps' : s.usage <= usage'[s.provider]
  BY <1>1, <1>3 DEF OrderInv
<1>5. \A u \in Tasks : ~Holds(u)'
  <2>1. \A x \in {"sleeping"} : [NoLoop EXCEPT !.phase = x].phase = x
    BY Records DEF TypeInv, Live
  <2>2. loop'[t].phase = "sleeping"
    BY <2>1 DEF Store, TypeInv
  <2>3. \A u \in Tasks : u # t => loop'[u] = loop[u]
    BY DEF Store, TypeInv
  <2>4. \A u \in Tasks : u # t => ~Holds(u)
    BY DEF Holds, LoopInv, Live
  <2> QED BY <2>2, <2>3, <2>4 DEF Holds
<1>6. new.usage \in Nat
  BY <1>1 DEF TypeInv, Loop
<1>7. BaselineInOrder'
  <2> SUFFICES ASSUME NEW s \in snaps', NEW u \in snaps', s.provider = u.provider, s.at < u.at
               PROVE  s.usage <= u.usage
    BY DEF BaselineInOrder
  <2>1. CASE u = new
    BY <1>1, <1>2, <1>3, <1>6, <2>1
  <2>2. CASE u # new
    <3>1. u \in snaps /\ s \in snaps
      BY <1>1, <1>2, <2>2, clock + 1 \in Nat DEF TypeInv
    <3> QED BY <3>1 DEF OrderInv, BaselineInOrder
  <2> QED BY <2>1, <2>2
<1> QED BY <1>4, <1>5, <1>7 DEF OrderInv

LEMMA OrderStep ==
  ASSUME TypeInv, LoopInv, OrderInv, TypeInv', [Next]_vars
  PROVE  OrderInv'
<1> USE DEF log, checker, Holds
<1>1. \A p \in Providers : usage[p] \in Nat
  BY DEF TypeInv
<1>2. DOMAIN loop = Tasks /\ \A t \in Tasks : loop[t] \in Loop
  BY DEF TypeInv
<1> PICK asleep, over, failed : /\ asleep = [NoLoop EXCEPT !.phase = "sleeping"]
                                /\ over = [NoLoop EXCEPT !.phase = "ended"]
                                /\ failed = [NoLoop EXCEPT !.phase = "reporting"]
  OBVIOUS
<1>3. asleep.phase = "sleeping" /\ over.phase = "ended" /\ failed.phase = "reporting"
  BY Records DEF TypeInv, Live
<1>4. CASE UNCHANGED vars
  BY <1>1, <1>4, OrderKept DEF vars
<1>5. ASSUME NEW r \in Requests, Start(r)
      PROVE  OrderInv'
  <2>1. \A t \in Tasks : /\ loop'[t].phase = loop[t].phase /\ loop'[t].provider = loop[t].provider
                         /\ loop'[t].remote = loop[t].remote
    BY <1>2, <1>5 DEF Start, Loop
  <2> QED BY <1>1, <1>5, <2>1, OrderKept DEF Start
<1>6. ASSUME NEW r \in Requests, Bill(r)
      PROVE  OrderInv'
  <2> PICK p \in {req[r].from, provider} : usage' = [usage EXCEPT ![p] = @ + 1]
    BY <1>6 DEF Bill
  <2>1. \A q \in Providers : usage[q] <= usage'[q]
    BY <1>1 DEF TypeInv
  <2> QED BY <1>6, <2>1, OrderKept DEF Bill
<1>7. ASSUME NEW r \in Requests, Record(r) \/ Abandon(r)
      PROVE  OrderInv'
  <2>1. UNCHANGED <<usage, snaps, loop>>
    BY <1>7 DEF Record, Abandon
  <2> QED BY <1>1, <2>1, OrderKept
<1>8. ASSUME NEW t \in Tasks, LoopStep(t)
      PROVE  OrderInv'
  <2>1. CASE Store(t, StatusOf(t), ExcusedOf(t)) /\ Compare(t)
    <3>1. loop[t].phase = "answered" /\ usage' = usage
      BY <2>1, Comparison
    <3> QED BY <2>1, <3>1, OrderStored
  <2>2. CASE Alerted(t)
    BY <2>2, OrderStored DEF Alerted
  <2>3. CASE Ask(t) \/ Answer(t) \/ FetchFails(t) \/ Reported(t)
    <3>1. UNCHANGED <<usage, snaps>>
      BY <2>3 DEF Ask, Answer, FetchFails, Reported
    <3>2. \A u \in Tasks : u # t => loop'[u] = loop[u]
      BY <1>2, <2>3 DEF Ask, Answer, FetchFails, Reported
    <3>3. \/ loop'[t].phase \notin {"answered", "alerting"}
          \/ loop'[t].remote = usage[loop[t].provider] /\ loop'[t].provider = loop[t].provider
      <4>1. CASE Ask(t)
        BY <1>2, <4>1 DEF Ask, Loop
      <4>2. CASE Answer(t)
        BY <1>2, <4>2 DEF Answer, Loop
      <4>3. CASE FetchFails(t)
        BY <1>2, <1>3, <4>3 DEF FetchFails
      <4>4. CASE Reported(t)
        BY <1>2, <4>4 DEF Reported, Loop
      <4> QED BY <2>3, <4>1, <4>2, <4>3, <4>4
    <3> QED BY <1>1, <3>1, <3>2, <3>3, OrderKept
  <2>4. CASE /\ Compare(t)
             /\ loop' = [loop EXCEPT ![t].phase = "alerting", ![t].status = StatusOf(t),
                                     ![t].excused = ExcusedOf(t)]
             /\ UNCHANGED <<clock, snaps, lost>>
    <3>1. UNCHANGED <<usage, snaps>> /\ loop[t].phase = "answered"
      BY <2>4, Comparison
    <3>2. \A u \in Tasks : u # t => loop'[u] = loop[u]
      BY <1>2, <2>4
    <3>3. loop'[t].remote = loop[t].remote /\ loop'[t].provider = loop[t].provider
      BY <1>2, <2>4 DEF Loop
    <3> QED BY <1>1, <3>1, <3>2, <3>3, OrderKept
  <2> QED BY <1>8, <2>1, <2>2, <2>3, <2>4, Comparison DEF LoopStep
<1>9. CASE ReloadSettings \/ EndStop \/ Purge
  <2>1. usage' = usage /\ snaps' \subseteq snaps /\ loop' = loop
    BY <1>9 DEF ReloadSettings, EndStop, Purge
  <2> QED BY <1>1, <2>1, OrderKept
<1>10. CASE OnProviderChanged \/ BeginStop \/ Restart
  <2>1. /\ usage' = usage /\ snaps' = snaps
        /\ \A t \in Tasks : loop'[t] \in {asleep, over, loop[t]}
    BY <1>10 DEF OnProviderChanged, BeginStop, Restart
  <2>2. \A t \in Tasks : loop'[t] = loop[t] \/ loop'[t].phase \notin {"answered", "alerting"}
    BY <1>3, <2>1
  <2>3. \A p \in Providers : usage[p] <= usage'[p]
    BY <1>1, <2>1
  <2> QED BY <2>1, <2>2, <2>3, OrderKept
<1> QED BY <1>4, <1>5, <1>6, <1>7, <1>8, <1>9, <1>10 DEF Next

(* Each baseline of a provider is at least its predecessor: cancelling the  *)
(* loop on a provider change keeps an overtaken answer out of the table.    *)
THEOREM BaselinesGrow == Spec => []BaselineInOrder
<1>1. Init => OrderInv
  <2> SUFFICES ASSUME Init PROVE OrderInv
    OBVIOUS
  <2>1. snaps = {} /\ provider \in Providers
    BY DEF Init
  <2>2. \A t \in Tasks : ~Holds(t)
    <3>1. \A x \in {"sleeping", "none"} : [NoLoop EXCEPT !.phase = x].phase = x
      BY <2>1, Records DEF Live
    <3> QED BY <3>1 DEF Init, Holds
  <2> QED BY <2>1, <2>2 DEF OrderInv, BaselineInOrder
<1>2. TypeInv /\ LoopInv /\ TypeInv' /\ OrderInv /\ [Next]_vars => OrderInv'
  BY OrderStep
<1>3. OrderInv => BaselineInOrder
  BY DEF OrderInv
<1> QED BY <1>1, <1>2, <1>3, TypesHold, PTL DEF Spec

-----------------------------------------------------------------------------
(* A mismatch is explained.  The invariant counts: while nothing is lost,   *)
(* what a provider has billed since its newest clean baseline is what has   *)
(* been logged since then and what is billed and not yet logged; when a     *)
(* clean check compares, nothing is in flight and the second part is empty. *)

(* Rows carry the name of the provider selected in the settings.            *)
OwnColumn == \A p \in Providers : RowProvider[p] = p

Billed(p) == {r \in Requests : req[r].phase = "billed" /\ req[r].by = p}
Newest(s) == s \in snaps /\ \A t \in Baselines(s.provider) : t.at <= s.at

(* A post is logged once.                                                   *)
RowsInv ==
  /\ IsFiniteSet(rows)
  /\ \A row \in rows :
       LET r == row.req
       IN /\ row.post \in Nat
          /\ req[r].phase # "idle"
          /\ req[r].phase = "open" => row.post <= req[r].posts
          /\ req[r].phase = "billed" => row.post < req[r].posts

(* Nothing was billed since a clean answer.                                 *)
CleanInv ==
  \A t \in Tasks : Holds(t) /\ loop[t].clean =>
    InFlight = {} /\ loop[t].remote = usage[loop[t].provider]

NewestInv == \A s \in snaps : \E t \in Baselines(s.provider) : Newest(t)

(* Requests in flight started after every clean baseline.                   *)
StartInv == \A s \in snaps, r \in InFlight : s.clean => s.at < req[r].start

CountInv ==
  \A s \in snaps : Newest(s) /\ s.clean /\ s.provider \notin lost =>
    usage[s.provider] = s.usage + CostSince(s.provider, s.at) + Cardinality(Billed(s.provider))

AlertInv == \A t \in Tasks : loop[t].phase = "alerting" => loop[t].excused

-----------------------------------------------------------------------------
(* The steps of a handler, as far as the count sees them.                   *)

LEMMA StartView ==
  ASSUME TypeInv, NEW r \in Requests, Start(r)
  PROVE  /\ req[r].phase = "idle" /\ req'[r].phase = "open" /\ req'[r].start = clock + 1
         /\ \A q \in Requests : q # r => req'[q] = req[q]
BY DEF Start, TypeInv, Request

LEMMA BillView ==
  ASSUME TypeInv, NEW r \in Requests, Bill(r)
  PROVE  \E p \in Providers :
           /\ req[r].phase = "open" /\ req'[r].phase = "billed" /\ req'[r].by = p
           /\ req'[r].start = req[r].start
           /\ req'[r].posts = req[r].posts + 1
           /\ usage'[p] = usage[p] + 1
           /\ \A x \in Providers : x # p => usage'[x] = usage[x]
           /\ \A q \in Requests : q # r => req'[q] = req[q]
<1> PICK p \in {req[r].from, provider} :
      /\ req' = [req EXCEPT ![r].phase = "billed", ![r].by = p, ![r].posts = @ + 1]
      /\ usage' = [usage EXCEPT ![p] = @ + 1]
  BY DEF Bill
<1>1. p \in Providers
  BY DEF TypeInv, Request
<1>2. /\ req'[r].phase = "billed" /\ req'[r].by = p
      /\ req'[r].start = req[r].start
      /\ req'[r].posts = req[r].posts + 1
      /\ \A q \in Requests : q # r => req'[q] = req[q]
  BY DEF TypeInv, Request
<1>3. usage'[p] = usage[p] + 1 /\ \A x \in Providers : x # p => usage'[x] = usage[x]
  BY <1>1 DEF TypeInv
<1>4. req[r].phase = "open"
  BY DEF Bill
<1> QED BY <1>1, <1>2, <1>3, <1>4

LEMMA RecordView ==
  ASSUME TypeInv, NEW r \in Requests, Record(r)
  PROVE  \E q \in Providers, cost \in {0, 1} :
           /\ req[r].phase = "billed"
           /\ \/ req'[r].phase = "done"
              \/ req'[r].phase = "open" /\ req'[r].start = req[r].start /\ req'[r].posts = req[r].posts
           /\ rows' = rows \cup {[req |-> r, post |-> req[r].posts, at |-> req[r].start,
                                  provider |-> RowProvider[q], cost |-> cost]}
           /\ lost' = IF cost = 0 THEN lost \cup {req[r].by}
                        ELSE IF q = req[r].by THEN lost ELSE lost \cup {q, req[r].by}
           /\ \A x \in Requests : x # r => req'[x] = req[x]
<1> PICK q \in {req[r].from, provider}, next \in {"open", "done"}, cost \in {0, 1} :
     /\ rows' = rows \cup {[req |-> r, post |-> req[r].posts, at |-> req[r].start,
                            provider |-> RowProvider[q], cost |-> cost]}
     /\ req' = [req EXCEPT ![r] = IF next = "done" THEN Finished ELSE [@ EXCEPT !.phase = next]]
     /\ lost' = IF cost = 0 THEN lost \cup {req[r].by}
                  ELSE IF q = req[r].by THEN lost ELSE lost \cup {q, req[r].by}
  BY DEF Record
<1>1. q \in Providers /\ req[r] \in Request
  BY DEF TypeInv, Request
<1>2. req'[r] \in {Finished, [req[r] EXCEPT !.phase = "open"]} /\ \A x \in Requests : x # r => req'[x] = req[x]
  BY DEF TypeInv
<1>3. /\ Finished.phase = "done"
      /\ [req[r] EXCEPT !.phase = "open"].phase = "open"
      /\ [req[r] EXCEPT !.phase = "open"].start = req[r].start
      /\ [req[r] EXCEPT !.phase = "open"].posts = req[r].posts
  BY <1>1, Records DEF TypeInv, Request
<1>4. req[r].phase = "billed"
  BY DEF Record
<1> QED BY <1>1, <1>2, <1>3, <1>4

LEMMA AbandonView ==
  ASSUME TypeInv, NEW r \in Requests, Abandon(r)
  PROVE  /\ r \in InFlight /\ req'[r].phase = "done"
         /\ lost' = IF req[r].phase = "billed" THEN lost \cup {req[r].by} ELSE lost
         /\ \A q \in Requests : q # r => req'[q] = req[q]
BY Records DEF Abandon, TypeInv

LEMMA RestartView ==
  ASSUME TypeInv, Restart
  PROVE  /\ \A r \in Requests : IF r \in InFlight THEN req'[r].phase = "done" ELSE req'[r] = req[r]
         /\ InFlight' = {}
         /\ lost' = lost \cup {req[r].by : r \in {x \in Requests : req[x].phase = "billed"}}
         /\ UNCHANGED <<usage, rows, snaps>>
<1>1. Finished.phase = "done"
  BY Records DEF TypeInv
<1>2. \A r \in Requests : IF r \in InFlight THEN req'[r].phase = "done" ELSE req'[r] = req[r]
  BY <1>1 DEF Restart
<1> QED BY <1>2 DEF Restart, InFlight

Quiet == UNCHANGED <<usage, req, rows>>

LEMMA QuietSteps ==
  ASSUME ReloadSettings \/ OnProviderChanged \/ BeginStop \/ EndStop \/ (\E t \in Tasks : LoopStep(t))
         \/ UNCHANGED vars
  PROVE  Quiet
BY DEF Quiet, log, vars, ReloadSettings, OnProviderChanged, BeginStop, EndStop,
       LoopStep, Ask, Answer, Compare, Alerted, FetchFails, Reported

LEMMA RowsStep ==
  ASSUME TypeInv, RowsInv, [Next]_vars
  PROVE  RowsInv'
<1>1. \A r \in Requests : req[r].posts \in Nat
  BY DEF TypeInv, Request
<1>2. \A row \in rows : row.req \in Requests
  BY DEF TypeInv
<1>3. CASE Quiet
  BY <1>3 DEF Quiet, RowsInv
<1>4. ASSUME NEW r \in Requests, Start(r)
      PROVE  RowsInv'
  <2>1. rows' = rows /\ \A row \in rows : row.req # r
    BY <1>4 DEF Start, RowsInv
  <2> QED BY <1>2, <1>4, <2>1, StartView DEF RowsInv
<1>5. ASSUME NEW r \in Requests, Bill(r)
      PROVE  RowsInv'
  <2>1. rows' = rows
    BY <1>5 DEF Bill
  <2> QED BY <1>1, <1>2, <1>5, <2>1, BillView DEF RowsInv
<1>6. ASSUME NEW r \in Requests, Record(r)
      PROVE  RowsInv'
  <2> PICK q \in Providers, cost \in {0, 1} :
        /\ \/ req'[r].phase = "done"
           \/ req'[r].phase = "open" /\ req'[r].start = req[r].start /\ req'[r].posts = req[r].posts
        /\ rows' = rows \cup {[req |-> r, post |-> req[r].posts, at |-> req[r].start,
                               provider |-> RowProvider[q], cost |-> cost]}
        /\ \A x \in Requests : x # r => req'[x] = req[x]
    BY <1>6, RecordView
  <2>1. IsFiniteSet(rows')
    BY FS_AddElement DEF RowsInv
  <2>2. req[r].phase = "billed"
    BY <1>6, RecordView
  <2>3. \A row \in rows : row.req = r => row.post \in Nat /\ row.post < req[r].posts
    BY <2>2 DEF RowsInv
  <2>4. ASSUME NEW row \in rows'
        PROVE  /\ row.post \in Nat
               /\ req'[row.req].phase # "idle"
               /\ req'[row.req].phase = "open" => row.post <= req'[row.req].posts
               /\ req'[row.req].phase = "billed" => row.post < req'[row.req].posts
    <3>1. CASE row \in rows /\ row.req # r
      BY <1>2, <3>1 DEF RowsInv
    <3>2. CASE row \in rows /\ row.req = r
      BY <1>1, <2>3, <3>2
    <3>3. CASE row = [req |-> r, post |-> req[r].posts, at |-> req[r].start,
                      provider |-> RowProvider[q], cost |-> cost]
      BY <1>1, <3>3
    <3> QED BY <3>1, <3>2, <3>3
  <2> QED BY <2>1, <2>4 DEF RowsInv
<1>7. ASSUME NEW r \in Requests, Abandon(r)
      PROVE  RowsInv'
  <2>1. rows' = rows
    BY <1>7 DEF Abandon
  <2> QED BY <1>2, <1>7, <2>1, AbandonView DEF RowsInv
<1>8. CASE Restart
  BY <1>2, <1>8, RestartView DEF RowsInv
<1>9. CASE Purge
  <2>1. rows' \subseteq rows /\ req' = req
    BY <1>9 DEF Purge
  <2> QED BY <2>1, FS_Subset DEF RowsInv
<1> QED BY <1>3, <1>4, <1>5, <1>6, <1>7, <1>8, <1>9, QuietSteps DEF Next

-----------------------------------------------------------------------------
(* The steps of the checker.                                                *)

(* A loop that stores goes back to sleep; the new snapshot is the newest.   *)
LEMMA StoreView ==
  ASSUME TypeInv, LoopInv, NEW t \in Tasks, Holds(t), NEW status, NEW excused, Store(t, status, excused)
  PROVE  \E new :
           /\ snaps' = snaps \cup {new}
           /\ new.provider = loop[t].provider /\ new.at = clock + 1 /\ new.usage = loop[t].remote
           /\ new.status = status /\ new.clean = loop[t].clean /\ new.excused = excused
           /\ \A s \in snaps : s.at \in Nat /\ s.at < new.at
           /\ lost' = lost \ {new.provider}
           /\ \A u \in Tasks : ~Holds(u)'
<1>1. \A s \in snaps : s.at \in Nat /\ s.at < clock + 1
  BY DEF TypeInv, Snapshot
<1>2. \A u \in Tasks : ~Holds(u)'
  <2>1. \A x \in {"sleeping"} : [NoLoop EXCEPT !.phase = x].phase = x
    BY Records DEF TypeInv, Live
  <2>2. loop'[t].phase = "sleeping"
    BY <2>1 DEF Store, TypeInv
  <2>3. \A u \in Tasks : u # t => loop'[u] = loop[u]
    BY DEF Store, TypeInv
  <2>4. \A u \in Tasks : u # t => ~Holds(u)
    BY DEF Holds, LoopInv, Live
  <2> QED BY <2>2, <2>3, <2>4 DEF Holds
<1> WITNESS [provider |-> loop[t].provider, at |-> clock + 1, usage |-> loop[t].remote,
             status |-> status, clean |-> loop[t].clean, excused |-> excused]
<1> QED BY <1>1, <1>2 DEF Store

(* What a loop concludes: with nothing to excuse it, a check finds no       *)
(* difference.                                                              *)
LEMMA ComparisonIsSound ==
  ASSUME TypeInv, CleanInv, NewestInv, CountInv, NEW t \in Tasks, loop[t].phase = "answered",
         RowsInv, ~ExcusedOf(t)
  PROVE  StatusOf(t) = "ok"
<1> PICK p : p = loop[t].provider
  OBVIOUS
<1>1. loop[t].clean /\ p \notin lost /\ LastOf(p).clean
  BY DEF ExcusedOf
<1>2. Baselines(p) # {} /\ LastOf(p) = LastSnapshot(p)
  BY <1>1 DEF LastOf
<1>3. PICK s : s = LastSnapshot(p)
  OBVIOUS
<1>4. s \in Baselines(p) /\ \A u \in Baselines(p) : u.at <= s.at
  <2>1. \E u \in Baselines(p) : \A v \in Baselines(p) : v.at <= u.at
    BY <1>2 DEF NewestInv, Newest, Baselines
  <2> QED BY <1>3, <2>1 DEF LastSnapshot
<1>5. s \in snaps /\ s.provider = p /\ Newest(s) /\ s.clean
  BY <1>1, <1>2, <1>3, <1>4 DEF Newest, Baselines
<1>6. usage[p] = s.usage + CostSince(p, s.at) + Cardinality(Billed(p))
  BY <1>1, <1>5 DEF CountInv
<1>7. loop[t].remote = usage[p] /\ Cardinality(Billed(p)) = 0
  <2>1. InFlight = {} /\ loop[t].remote = usage[p]
    BY <1>1 DEF CleanInv, Holds
  <2>2. Billed(p) = {}
    BY <2>1 DEF Billed, InFlight
  <2> QED BY <2>1, <2>2, FS_EmptySet
<1>8. s.usage + CostSince(p, s.at) + 0 = s.usage + CostSince(p, s.at)
  <2>1. s.usage \in Nat /\ usage[p] \in Nat
    BY <1>5 DEF TypeInv, Snapshot
  <2>2. CostSince(p, s.at) \in Nat
    <3>1. {row \in rows : row.provider = p /\ row.at >= s.at /\ row.cost = 1} \in SUBSET rows
      OBVIOUS
    <3>2. IsFiniteSet({row \in rows : row.provider = p /\ row.at >= s.at /\ row.cost = 1})
      BY <3>1, FS_Subset DEF RowsInv
    <3> QED BY <3>2, FS_CardinalityType DEF CostSince
  <2> QED BY <2>1, <2>2
<1> QED BY <1>2, <1>3, <1>6, <1>7, <1>8 DEF StatusOf

WindowInv == RowsInv /\ CleanInv /\ NewestInv /\ StartInv /\ CountInv /\ AlertInv /\ MismatchIsExplained

(* A step of a loop stores a snapshot, or asks, keeps or drops an answer.   *)
LEMMA LoopView ==
  ASSUME TypeInv, LoopInv, WindowInv, NEW t \in Tasks, LoopStep(t)
  PROVE  \/ /\ Holds(t)
            /\ \E status, excused : Store(t, status, excused) /\ (status = "mismatch" => excused)
         \/ /\ UNCHANGED <<snaps, lost>>
            /\ \A u \in Tasks : u # t => loop'[u] = loop[u]
            /\ \/ ~Holds(t)'
               \/ /\ loop'[t].phase = "answered"
                  /\ loop'[t].remote = usage[loop'[t].provider]
                  /\ loop'[t].clean <=> InFlight = {}
               \/ /\ Holds(t)
                  /\ loop'[t].provider = loop[t].provider
                  /\ loop'[t].remote = loop[t].remote
                  /\ loop'[t].clean = loop[t].clean
                  /\ loop'[t].excused
<1> USE DEF Holds
<1>1. DOMAIN loop = Tasks /\ loop[t] \in Loop
  BY DEF TypeInv
<1>2. CASE Ask(t)
  BY <1>1, <1>2 DEF Ask, Loop
<1>3. CASE Answer(t)
  <2> PICK b \in BOOLEAN : b = (InFlight = {})
    OBVIOUS
  <2>1. loop' = [loop EXCEPT ![t].phase = "answered", ![t].remote = usage[loop[t].provider], ![t].clean = b]
    BY <1>3 DEF Answer
  <2>2. /\ loop'[t].phase = "answered" /\ loop'[t].remote = usage[loop'[t].provider]
        /\ loop'[t].clean = b
        /\ \A u \in Tasks : u # t => loop'[u] = loop[u]
    BY <1>1, <2>1 DEF Loop
  <2>3. UNCHANGED <<snaps, lost>>
    BY <1>3 DEF Answer
  <2> QED BY <2>2, <2>3
<1>4. CASE Compare(t)
  <2>1. loop[t].phase = "answered" /\ (StatusOf(t) = "mismatch" => ExcusedOf(t))
    BY <1>4, Comparison, ComparisonIsSound DEF WindowInv
  <2>2. CASE Store(t, StatusOf(t), ExcusedOf(t))
    BY <2>1, <2>2
  <2>3. CASE /\ StatusOf(t) = "mismatch"
             /\ loop' = [loop EXCEPT ![t].phase = "alerting", ![t].status = StatusOf(t),
                                     ![t].excused = ExcusedOf(t)]
             /\ UNCHANGED <<clock, snaps, lost>>
    <3> PICK status, excused : status = StatusOf(t) /\ excused = ExcusedOf(t)
      OBVIOUS
    <3>1. loop' = [loop EXCEPT ![t].phase = "alerting", ![t].status = status, ![t].excused = excused]
      BY <2>3
    <3>2. /\ loop'[t].provider = loop[t].provider /\ loop'[t].remote = loop[t].remote
          /\ loop'[t].clean = loop[t].clean /\ loop'[t].excused = excused
          /\ \A u \in Tasks : u # t => loop'[u] = loop[u]
      BY <1>1, <3>1 DEF Loop
    <3> QED BY <2>1, <2>3, <3>2
  <2> QED BY <1>4, <2>2, <2>3, Comparison
<1>5. CASE Alerted(t)
  BY <1>5 DEF Alerted, WindowInv, AlertInv
<1>6. CASE FetchFails(t)
  <2>1. \A x \in {"reporting"} : [NoLoop EXCEPT !.phase = x].phase = x
    BY Records DEF TypeInv, Live
  <2> QED BY <1>1, <1>6, <2>1 DEF FetchFails
<1>7. CASE Reported(t)
  BY <1>1, <1>7 DEF Reported, Loop
<1> QED BY <1>2, <1>3, <1>4, <1>5, <1>6, <1>7 DEF LoopStep

(* A change of the checker's life ends answers and makes none.              *)
LEMMA LifeView ==
  ASSUME TypeInv, ReloadSettings \/ OnProviderChanged \/ BeginStop \/ EndStop \/ Restart \/ Purge
  PROVE  /\ \A t \in Tasks : loop'[t] = loop[t] \/ ~Holds(t)'
         /\ Restart \/ UNCHANGED <<req, lost>>
         /\ usage' = usage
<1> PICK asleep, over : asleep = [NoLoop EXCEPT !.phase = "sleeping"] /\ over = [NoLoop EXCEPT !.phase = "ended"]
  OBVIOUS
<1>1. asleep.phase = "sleeping" /\ over.phase = "ended"
  BY Records DEF TypeInv, Live
<1>2. CASE ReloadSettings \/ EndStop \/ Purge
  BY <1>2 DEF ReloadSettings, EndStop, Purge, checker, log
<1>3. CASE OnProviderChanged \/ BeginStop \/ Restart
  <2>1. \A t \in Tasks : loop'[t] \in {asleep, over, loop[t]}
    BY <1>3 DEF OnProviderChanged, BeginStop, Restart
  <2>2. \A t \in Tasks : loop'[t] = loop[t] \/ ~Holds(t)'
    BY <1>1, <2>1 DEF Holds
  <2> QED BY <1>3, <2>2 DEF OnProviderChanged, BeginStop, Restart, log
<1> QED BY <1>2, <1>3

(* Unless a snapshot is stored, every answer held after a step is new, or   *)
(* is the one held before it, less clean if a request started.              *)
LEMMA CleanStep ==
  ASSUME TypeInv, LoopInv, WindowInv, [Next]_vars
  PROVE  CleanInv' /\ AlertInv'
<1> USE DEF WindowInv
<1>1. CASE UNCHANGED vars
  BY <1>1 DEF vars, log, checker, CleanInv, AlertInv, Holds, InFlight
<1>2. ASSUME NEW r \in Requests, Start(r)
      PROVE  CleanInv' /\ AlertInv'
  <2>1. ASSUME NEW t \in Tasks
        PROVE  /\ loop'[t].phase = loop[t].phase /\ loop'[t].excused = loop[t].excused
               /\ loop'[t].clean => ~Holds(t)
    <3> PICK b \in BOOLEAN : b <=> loop[t].clean /\ loop[t].phase \notin {"answered", "alerting"}
      OBVIOUS
    <3>1. loop'[t] = [loop[t] EXCEPT !.clean = b]
      BY <1>2 DEF Start
    <3> QED BY <3>1 DEF Holds, TypeInv, Loop
  <2> QED BY <2>1 DEF CleanInv, AlertInv, Holds
<1>3. ASSUME NEW r \in Requests, Bill(r) \/ Record(r) \/ Abandon(r)
      PROVE  CleanInv' /\ AlertInv'
  <2>1. r \in InFlight /\ loop' = loop
    BY <1>3 DEF Bill, Record, Abandon, InFlight, checker
  <2> QED BY <2>1 DEF CleanInv, AlertInv, Holds
<1>4. ASSUME NEW t \in Tasks, LoopStep(t)
      PROVE  CleanInv' /\ AlertInv'
  <2>1. Quiet /\ InFlight' = InFlight
    BY <1>4, QuietSteps DEF Quiet, InFlight
  <2>2. CASE Holds(t) /\ \E status, excused : Store(t, status, excused)
    <3>1. \A u \in Tasks : ~Holds(u)'
      BY <2>2, StoreView
    <3> QED BY <3>1 DEF CleanInv, AlertInv, Holds
  <2>3. CASE \A u \in Tasks : u # t => loop'[u] = loop[u]
    <3>1. \A u \in Tasks : u # t =>
            /\ Holds(u)' /\ loop'[u].clean => InFlight' = {} /\ loop'[u].remote = usage'[loop'[u].provider]
            /\ loop'[u].phase = "alerting" => loop'[u].excused
      BY <2>1, <2>3 DEF CleanInv, AlertInv, Holds, Quiet
    <3>2. \/ Holds(t) /\ \E status, excused : Store(t, status, excused)
          \/ /\ Holds(t)' /\ loop'[t].clean => InFlight' = {} /\ loop'[t].remote = usage'[loop'[t].provider]
             /\ loop'[t].phase = "alerting" => loop'[t].excused
      BY <1>4, <2>1, LoopView DEF CleanInv, Holds, Quiet
    <3> QED BY <2>2, <3>1, <3>2 DEF CleanInv, AlertInv
  <2> QED BY <1>4, <2>2, <2>3, LoopView
<1>5. CASE ReloadSettings \/ OnProviderChanged \/ BeginStop \/ EndStop \/ Restart \/ Purge
  <2>1. usage' = usage /\ InFlight' \subseteq InFlight
    BY <1>5, LifeView, RestartView DEF InFlight
  <2> QED BY <1>5, <2>1, LifeView DEF CleanInv, AlertInv, Holds
<1> QED BY <1>1, <1>2, <1>3, <1>4, <1>5 DEF Next

(* A snapshot is stored by a loop, or some are purged, or they stay.        *)
LEMMA SnapshotSteps ==
  ASSUME TypeInv, LoopInv, WindowInv, [Next]_vars
  PROVE  \/ \E t \in Tasks : \E status, excused :
               /\ Holds(t) /\ Store(t, status, excused) /\ (status = "mismatch" => excused)
               /\ Quiet
         \/ Purge
         \/ snaps' = snaps
<1>1. ASSUME NEW t \in Tasks, LoopStep(t)
      PROVE  \/ \E status, excused :
                  /\ Holds(t) /\ Store(t, status, excused) /\ (status = "mismatch" => excused)
                  /\ Quiet
             \/ snaps' = snaps
  BY <1>1, LoopView, QuietSteps
<1>2. ASSUME NEW r \in Requests, Start(r) \/ Bill(r) \/ Record(r) \/ Abandon(r)
      PROVE  snaps' = snaps
  BY <1>2 DEF Start, Bill, Record, Abandon
<1>3. UNCHANGED vars \/ ReloadSettings \/ OnProviderChanged \/ BeginStop \/ EndStop \/ Restart => snaps' = snaps
  BY DEF vars, ReloadSettings, OnProviderChanged, BeginStop, EndStop, Restart
<1> QED BY <1>1, <1>2, <1>3 DEF Next

LEMMA NewestStep ==
  ASSUME TypeInv, LoopInv, WindowInv, [Next]_vars
  PROVE  NewestInv' /\ MismatchIsExplained'
<1>1. NewestInv /\ MismatchIsExplained
  BY DEF WindowInv
<1>2. CASE snaps' = snaps
  BY <1>1, <1>2 DEF NewestInv, MismatchIsExplained, Newest, Baselines
<1>3. ASSUME NEW t \in Tasks, NEW status, NEW excused,
             Holds(t), Store(t, status, excused), status = "mismatch" => excused
      PROVE  NewestInv' /\ MismatchIsExplained'
  <2> PICK new : /\ snaps' = snaps \cup {new}
                 /\ new.at = clock + 1 /\ new.status = status /\ new.excused = excused
                 /\ \A s \in snaps : s.at \in Nat /\ s.at < new.at
    BY <1>3, StoreView
  <2>1. MismatchIsExplained'
    BY <1>1, <1>3 DEF MismatchIsExplained
  <2>2. new \in Baselines(new.provider)' /\ Newest(new)'
    <3>1. \A s \in snaps' : s.at <= new.at
      BY DEF TypeInv
    <3> QED BY <3>1 DEF Baselines, Newest
  <2>3. ASSUME NEW s \in snaps', s.provider # new.provider
        PROVE  \E u \in Baselines(s.provider)' : Newest(u)'
    <3> PICK u \in Baselines(s.provider) : Newest(u)
      BY <1>1, <2>3 DEF NewestInv
    <3>1. u.provider = s.provider /\ u \in snaps'
      BY DEF Baselines
    <3>2. \A v \in snaps' : v.provider = u.provider => v \in Baselines(u.provider)
      BY <2>3, <3>1 DEF Baselines
    <3>3. Newest(u)'
      BY <3>1, <3>2 DEF Newest, Baselines
    <3>4. u \in Baselines(s.provider)'
      BY <3>1 DEF Baselines
    <3> QED BY <3>3, <3>4
  <2>4. NewestInv'
    <3> SUFFICES ASSUME NEW s \in snaps' PROVE \E u \in Baselines(s.provider)' : Newest(u)'
      BY DEF NewestInv
    <3>1. CASE s.provider = new.provider
      BY <2>2, <3>1
    <3> QED BY <2>3, <3>1
  <2> QED BY <2>1, <2>4
<1>4. CASE Purge
  <2> PICK cutoff \in 1..clock : snaps' = {s \in snaps : s.at >= cutoff}
    BY <1>4 DEF Purge
  <2>1. \A s \in snaps : s.at \in Nat
    BY DEF TypeInv, Snapshot
  <2>2. ASSUME NEW s \in snaps'
        PROVE  \E u \in Baselines(s.provider)' : Newest(u)'
    <3> PICK u \in Baselines(s.provider) : Newest(u)
      BY <1>1 DEF NewestInv
    <3>1. u \in snaps /\ u.provider = s.provider /\ s.at <= u.at
      BY DEF Newest, Baselines
    <3>2. u \in snaps'
      BY <2>1, <3>1 DEF TypeInv
    <3>3. Newest(u)' /\ u \in Baselines(s.provider)'
      BY <3>1, <3>2 DEF Newest, Baselines
    <3> QED BY <3>3
  <2> QED BY <1>1, <2>2 DEF NewestInv, MismatchIsExplained
<1> QED BY <1>2, <1>3, <1>4, SnapshotSteps

LEMMA StartStep ==
  ASSUME TypeInv, LoopInv, WindowInv, [Next]_vars
  PROVE  StartInv'
<1>1. StartInv
  BY DEF WindowInv
<1>2. \A r \in InFlight : req[r].start \in Nat
  BY DEF TypeInv
<1>3. CASE snaps' \subseteq snaps /\ \A r \in InFlight' : r \in InFlight /\ req'[r].start = req[r].start
  BY <1>1, <1>3 DEF StartInv
<1>4. CASE UNCHANGED req /\ snaps' \subseteq snaps
  BY <1>3, <1>4 DEF InFlight
<1>5. ASSUME NEW r \in Requests, Start(r)
      PROVE  StartInv'
  <2>1. snaps' = snaps /\ \A s \in snaps : s.at < clock + 1
    BY <1>5 DEF Start, TypeInv, Snapshot
  <2>2. \A q \in InFlight' : q = r \/ (q \in InFlight /\ req'[q] = req[q])
    BY <1>5, StartView DEF InFlight
  <2> QED BY <1>1, <1>5, <2>1, <2>2, StartView DEF StartInv
<1>6. ASSUME NEW r \in Requests, Bill(r) \/ Record(r) \/ Abandon(r)
      PROVE  StartInv'
  <2>1. snaps' = snaps
    BY <1>6 DEF Bill, Record, Abandon
  <2>2. /\ \A q \in Requests : q # r => req'[q] = req[q]
        /\ req'[r].phase = "done" \/ (r \in InFlight /\ req'[r].start = req[r].start)
    <3>1. CASE Bill(r)
      BY <3>1, BillView DEF InFlight
    <3>2. CASE Record(r)
      BY <3>2, RecordView DEF InFlight
    <3>3. CASE Abandon(r)
      BY <3>3, AbandonView
    <3> QED BY <1>6, <3>1, <3>2, <3>3
  <2>3. \A q \in InFlight' : q \in InFlight /\ req'[q].start = req[q].start
    BY <2>2 DEF InFlight
  <2> QED BY <1>3, <2>1, <2>3
<1>7. ASSUME NEW t \in Tasks, LoopStep(t)
      PROVE  StartInv'
  <2>1. req' = req /\ InFlight' = InFlight
    BY <1>7, QuietSteps DEF Quiet, InFlight
  <2>2. ASSUME NEW status, NEW excused, Holds(t), Store(t, status, excused)
        PROVE  StartInv'
    <3> PICK new : snaps' = snaps \cup {new} /\ new.clean = loop[t].clean
      BY <2>2, StoreView
    <3>1. loop[t].clean => InFlight = {}
      BY <2>2 DEF WindowInv, CleanInv
    <3> QED BY <1>1, <2>1, <3>1 DEF StartInv
  <2>3. snaps' = snaps \/ \E status, excused : Holds(t) /\ Store(t, status, excused)
    BY <1>7, LoopView
  <2> QED BY <1>4, <2>1, <2>2, <2>3
<1>8. CASE UNCHANGED vars \/ ReloadSettings \/ OnProviderChanged \/ BeginStop \/ EndStop \/ Purge
  <2>1. UNCHANGED req /\ snaps' \subseteq snaps
    BY <1>8 DEF vars, log, ReloadSettings, OnProviderChanged, BeginStop, EndStop, Purge
  <2> QED BY <1>4, <2>1
<1>9. CASE Restart
  BY <1>9, RestartView DEF StartInv
<1> QED BY <1>5, <1>6, <1>7, <1>8, <1>9 DEF Next

-----------------------------------------------------------------------------
(* The count.                                                               *)

Since(p, since) == {row \in rows : row.provider = p /\ row.at >= since /\ row.cost = 1}

LEMMA CostIsCount == \A p, since : CostSince(p, since) = Cardinality(Since(p, since))
BY DEF CostSince, Since

LEMMA NextCostIsCount == \A p, since : CostSince(p, since)' = Cardinality(Since(p, since)')
BY DEF CostSince, Since

(* Nothing the count of a baseline depends on has changed.                  *)
LEMMA CountKept ==
  ASSUME CountInv, NEW s \in snaps, Newest(s), s.clean, s.provider \notin lost,
         usage'[s.provider] = usage[s.provider], Since(s.provider, s.at)' = Since(s.provider, s.at),
         Billed(s.provider)' = Billed(s.provider)
  PROVE  usage'[s.provider] = s.usage + CostSince(s.provider, s.at)' + Cardinality(Billed(s.provider)')
BY DEF CountInv, CostSince, Since

LEMMA Finite ==
  ASSUME RowsInv, NEW p, NEW since
  PROVE  /\ IsFiniteSet(Since(p, since)) /\ Cardinality(Since(p, since)) \in Nat
         /\ IsFiniteSet(Billed(p)) /\ Cardinality(Billed(p)) \in Nat
<1>1. Since(p, since) \in SUBSET rows /\ Billed(p) \in SUBSET Requests
  BY DEF Since, Billed
<1>2. IsFiniteSet(Since(p, since)) /\ IsFiniteSet(Billed(p))
  BY <1>1, FS_Subset, RequestsAssumption DEF RowsInv
<1> QED BY <1>2, FS_CardinalityType

(* A post is billed: one more on both sides.                                *)
LEMMA CountBill ==
  ASSUME TypeInv, RowsInv, CountInv, NEW r \in Requests, Bill(r),
         NEW s \in snaps, Newest(s), s.clean, s.provider \notin lost
  PROVE  usage'[s.provider] = s.usage + CostSince(s.provider, s.at)' + Cardinality(Billed(s.provider)')
<1> PICK p \in Providers :
      /\ req[r].phase = "open" /\ req'[r].phase = "billed" /\ req'[r].by = p
      /\ usage'[p] = usage[p] + 1
      /\ \A x \in Providers : x # p => usage'[x] = usage[x]
      /\ \A q \in Requests : q # r => req'[q] = req[q]
  BY BillView
<1>1. rows' = rows /\ s.provider \in Providers
  BY DEF Bill, TypeInv, Snapshot
<1>2. CASE s.provider # p
  <2>1. Billed(s.provider)' = Billed(s.provider)
    BY <1>2 DEF Billed
  <2>2. Since(s.provider, s.at)' = Since(s.provider, s.at)
    BY <1>1 DEF Since
  <2> QED BY <1>1, <1>2, <2>1, <2>2, CountKept
<1>3. CASE s.provider = p
  <2>1. Billed(p)' = Billed(p) \cup {r} /\ r \notin Billed(p)
    BY DEF Billed
  <2>2. Cardinality(Billed(p)') = Cardinality(Billed(p)) + 1 /\ Cardinality(Billed(p)) \in Nat
    BY <2>1, Finite, FS_AddElement
  <2>3. CostSince(p, s.at)' = CostSince(p, s.at) /\ CostSince(p, s.at) \in Nat
    <3>1. Since(p, s.at)' = Since(p, s.at)
      BY <1>1 DEF Since
    <3> QED BY <3>1, Finite, CostIsCount, NextCostIsCount
  <2>4. usage[p] = s.usage + CostSince(p, s.at) + Cardinality(Billed(p)) /\ s.usage \in Nat
    BY <1>3 DEF CountInv, TypeInv, Snapshot
  <2> QED BY <1>3, <2>2, <2>3, <2>4
<1> QED BY <1>2, <1>3

(* A billed post is logged: with its cost, it moves from one part of the      *)
(* count to the other; without, the provider is lost.                         *)
LEMMA CountRecord ==
  ASSUME OwnColumn, TypeInv, RowsInv, StartInv, CountInv, NEW r \in Requests, Record(r),
         NEW s \in snaps, Newest(s), s.clean, s.provider \notin lost'
  PROVE  usage'[s.provider] = s.usage + CostSince(s.provider, s.at)' + Cardinality(Billed(s.provider)')
<1> PICK q \in Providers, cost \in {0, 1} :
      /\ req[r].phase = "billed"
      /\ req'[r].phase = "done" \/ req'[r].phase = "open"
      /\ rows' = rows \cup {[req |-> r, post |-> req[r].posts, at |-> req[r].start,
                             provider |-> RowProvider[q], cost |-> cost]}
      /\ lost' = IF cost = 0 THEN lost \cup {req[r].by}
                   ELSE IF q = req[r].by THEN lost ELSE lost \cup {q, req[r].by}
      /\ \A x \in Requests : x # r => req'[x] = req[x]
  BY RecordView
<1> PICK p : p = s.provider
  OBVIOUS
<1> DEFINE new == [req |-> r, post |-> req[r].posts, at |-> req[r].start,
                   provider |-> RowProvider[q], cost |-> cost]
<1>1. /\ new.provider = q /\ new.at = req[r].start /\ new.req = r /\ new.post = req[r].posts
      /\ new.cost = cost
  BY DEF OwnColumn
<1>2. rows' = rows \cup {new}
  OBVIOUS
<1> HIDE DEF new
<1>3. usage' = usage /\ p \notin lost
  BY DEF Record
<1>6. p # req[r].by \/ (cost = 1 /\ p = q)
  <2>1. p \notin lost'
    OBVIOUS
  <2>2. CASE cost = 0
    <3>1. lost' = lost \cup {req[r].by}
      BY <2>2
    <3> QED BY <2>1, <3>1
  <2>3. CASE cost = 1 /\ q # req[r].by
    <3>1. lost' = lost \cup {q, req[r].by}
      BY <2>3
    <3> QED BY <2>1, <3>1
  <2>4. CASE cost = 1 /\ q = req[r].by
    BY <2>4
  <2> QED BY <2>2, <2>3, <2>4
<1>4. CASE p # q \/ cost = 0
  <2>1. p # req[r].by
    BY <1>4, <1>6
  <2>2. Billed(p)' = Billed(p)
    BY <2>1 DEF Billed
  <2>3. Since(p, s.at)' = Since(p, s.at)
    BY <1>1, <1>2, <1>4 DEF Since
  <2> QED BY <1>3, <2>2, <2>3, CountKept
<1>5. CASE p = q /\ cost = 1
  <2>1. p = req[r].by
    BY <1>5
  <2>2. Billed(p)' = Billed(p) \ {r} /\ r \in Billed(p)
    BY <2>1 DEF Billed
  <2>3. Cardinality(Billed(p)') = Cardinality(Billed(p)) - 1 /\ Cardinality(Billed(p)) \in Nat
    BY <2>2, Finite, FS_RemoveElement
  <2>4. r \in InFlight
    BY DEF InFlight
  <2>5. s.at < req[r].start /\ s.at \in Nat /\ req[r].start \in Nat
    BY <2>4 DEF StartInv, TypeInv, Snapshot
  <2>6. new \notin rows
    <3>1. req[r].posts \in Nat
      BY DEF TypeInv, Request
    <3> QED BY <1>1, <3>1 DEF RowsInv
  <2>7. Since(p, s.at)' = Since(p, s.at) \cup {new} /\ new \notin Since(p, s.at)
    BY <1>1, <1>2, <1>5, <2>5, <2>6 DEF Since
  <2>8. CostSince(p, s.at)' = CostSince(p, s.at) + 1 /\ CostSince(p, s.at) \in Nat
    <3>0. IsFiniteSet(Since(p, s.at))
      BY Finite
    <3>1. Cardinality(Since(p, s.at)') = Cardinality(Since(p, s.at)) + 1
      BY <2>7, <3>0, FS_AddElement
    <3> QED BY <3>1, Finite, CostIsCount, NextCostIsCount
  <2>9. usage[p] = s.usage + CostSince(p, s.at) + Cardinality(Billed(p)) /\ s.usage \in Nat
    BY <1>3 DEF CountInv, TypeInv, Snapshot
  <2> QED BY <1>3, <2>3, <2>8, <2>9
<1> QED BY <1>4, <1>5

LEMMA CountStep ==
  ASSUME OwnColumn, TypeInv, LoopInv, WindowInv, [Next]_vars
  PROVE  CountInv'
<1> USE DEF WindowInv
<1> DEFINE Holding(s) == usage'[s.provider] = s.usage + CostSince(s.provider, s.at)'
                                                + Cardinality(Billed(s.provider)')
<1>1. CASE UNCHANGED <<usage, rows, snaps, lost>> /\ \A p \in Providers : Billed(p)' = Billed(p)
  <2> SUFFICES ASSUME NEW s \in snaps', Newest(s)', s.clean, s.provider \notin lost'
               PROVE  Holding(s)
    BY DEF CountInv
  <2>1. s \in snaps /\ Newest(s) /\ s.provider \notin lost /\ s.provider \in Providers
    BY <1>1 DEF Newest, Baselines, TypeInv, Snapshot
  <2> QED BY <1>1, <2>1, CountKept DEF Since
<1>2. CASE UNCHANGED <<usage, req, rows, snaps, lost>>
  BY <1>1, <1>2 DEF Billed
<1>3. ASSUME NEW r \in Requests, Start(r)
      PROVE  CountInv'
  <2>1. \A p \in Providers : Billed(p)' = Billed(p)
    BY <1>3, StartView DEF Billed
  <2> QED BY <1>1, <1>3, <2>1 DEF Start
<1>4. ASSUME NEW r \in Requests, Bill(r)
      PROVE  CountInv'
  <2>1. UNCHANGED <<snaps, lost>>
    BY <1>4 DEF Bill
  <2>2. \A s \in snaps : Newest(s)' => Newest(s)
    BY <2>1 DEF Newest, Baselines
  <2> QED BY <1>4, <2>1, <2>2, CountBill DEF CountInv
<1>5. ASSUME NEW r \in Requests, Record(r)
      PROVE  CountInv'
  <2>1. snaps' = snaps
    BY <1>5 DEF Record
  <2>2. \A s \in snaps : Newest(s)' => Newest(s)
    BY <2>1 DEF Newest, Baselines
  <2> QED BY <1>5, <2>1, <2>2, CountRecord DEF CountInv
<1>6. CASE Restart \/ \E r \in Requests : Abandon(r)
  <2>1. /\ UNCHANGED <<usage, rows, snaps>> /\ lost \subseteq lost'
        /\ \A p \in Providers : p \in lost' \/ Billed(p)' = Billed(p)
    <3>1. ASSUME NEW r \in Requests, Abandon(r)
          PROVE  /\ UNCHANGED <<usage, rows, snaps>> /\ lost \subseteq lost'
                 /\ \A p \in Providers : p \in lost' \/ Billed(p)' = Billed(p)
      <4>1. UNCHANGED <<usage, rows, snaps>>
        BY <3>1 DEF Abandon
      <4> QED BY <3>1, <4>1, AbandonView DEF Billed
    <3>2. CASE Restart
      <4>1. ASSUME NEW p \in Providers, p \notin lost'
            PROVE  Billed(p)' = Billed(p)
        <5>1. Billed(p) = {}
          BY <3>2, <4>1, RestartView DEF Billed
        <5>2. Billed(p)' = {}
          BY <3>2, RestartView DEF Billed, InFlight
        <5> QED BY <5>1, <5>2
      <4> QED BY <3>2, <4>1, RestartView
    <3> QED BY <1>6, <3>1, <3>2
  <2> SUFFICES ASSUME NEW s \in snaps', Newest(s)', s.clean, s.provider \notin lost'
               PROVE  Holding(s)
    BY DEF CountInv
  <2>2. s \in snaps /\ Newest(s) /\ s.provider \notin lost /\ s.provider \in Providers
    BY <2>1 DEF Newest, Baselines, TypeInv, Snapshot
  <2>3. Billed(s.provider)' = Billed(s.provider)
    BY <2>1, <2>2
  <2>4. Since(s.provider, s.at)' = Since(s.provider, s.at)
    BY <2>1 DEF Since
  <2> QED BY <2>1, <2>2, <2>3, <2>4, CountKept
<1>7. ASSUME NEW t \in Tasks, NEW status, NEW excused, Holds(t), Store(t, status, excused), Quiet
      PROVE  CountInv'
  <2> PICK new : /\ snaps' = snaps \cup {new}
                 /\ new.provider = loop[t].provider /\ new.at = clock + 1 /\ new.usage = loop[t].remote
                 /\ new.clean = loop[t].clean
                 /\ \A s \in snaps : s.at \in Nat /\ s.at < new.at
                 /\ lost' = lost \ {new.provider}
    BY <1>7, StoreView
  <2> SUFFICES ASSUME NEW s \in snaps', Newest(s)', s.clean, s.provider \notin lost'
               PROVE  Holding(s)
    BY DEF CountInv
  <2>1. UNCHANGED <<usage, req, rows>>
    BY <1>7 DEF Quiet
  <2>2. CASE s = new
    <3> PICK p : p = new.provider
      OBVIOUS
    <3>1. InFlight = {} /\ new.usage = usage[p]
      BY <1>7, <2>2 DEF CleanInv
    <3>2. Billed(p)' = {}
      BY <2>1, <3>1 DEF Billed, InFlight
    <3>3. Since(p, new.at)' = {}
      <4>1. \A row \in rows : row.at \in Nat /\ row.at < clock + 1
        BY DEF TypeInv
      <4> QED BY <2>1, <4>1 DEF Since, TypeInv
    <3>4. Cardinality(Billed(p)') = 0 /\ CostSince(p, new.at)' = 0
      BY <3>2, <3>3, FS_EmptySet DEF CostSince, Since
    <3>5. usage[p] \in Nat
      BY DEF TypeInv, Loop
    <3> QED BY <2>1, <2>2, <3>1, <3>4, <3>5
  <2>3. CASE s # new
    <3>1. s \in snaps
      BY <2>3
    <3>2. s.provider # new.provider
      <4>1. new \in snaps' /\ s.at < new.at /\ s.at \in Nat /\ new.at \in Nat
        BY <3>1 DEF TypeInv
      <4> QED BY <4>1 DEF Newest, Baselines
    <3>3. Newest(s) /\ s.provider \notin lost
      BY <3>1, <3>2 DEF Newest, Baselines
    <3> QED BY <2>1, <3>1, <3>3, CountKept DEF Since, Billed
  <2> QED BY <2>2, <2>3
<1>8. CASE Purge
  <2> PICK cutoff \in 1..clock :
        /\ rows' = {row \in rows : row.at >= cutoff}
        /\ snaps' = {s \in snaps : s.at >= cutoff}
        /\ UNCHANGED <<usage, req, lost>>
    BY <1>8 DEF Purge
  <2> SUFFICES ASSUME NEW s \in snaps', Newest(s)', s.clean, s.provider \notin lost'
               PROVE  Holding(s)
    BY DEF CountInv
  <2>1. \A u \in snaps : u.at \in Nat
    BY DEF TypeInv, Snapshot
  <2>2. s \in snaps /\ s.at >= cutoff /\ s.at \in Nat /\ cutoff \in Nat
    BY <2>1 DEF TypeInv
  <2>3. Newest(s)
    <3> SUFFICES ASSUME NEW u \in Baselines(s.provider) PROVE u.at <= s.at
      BY <2>2 DEF Newest
    <3>1. CASE u \in snaps'
      BY <3>1 DEF Newest, Baselines
    <3>2. CASE u \notin snaps'
      <4>1. u.at \in Nat /\ ~(u.at >= cutoff)
        BY <2>1, <3>2 DEF Baselines
      <4> QED BY <2>2, <4>1
    <3> QED BY <3>1, <3>2
  <2>4. \A row \in rows : row.at \in Nat
    BY DEF TypeInv
  <2>5. Since(s.provider, s.at)' = Since(s.provider, s.at)
    BY <2>2, <2>4 DEF Since
  <2> QED BY <2>2, <2>3, <2>5, CountKept DEF Billed
<1>9. CASE UNCHANGED vars \/ ReloadSettings \/ OnProviderChanged \/ BeginStop \/ EndStop
  BY <1>2, <1>9 DEF vars, log, checker, ReloadSettings, OnProviderChanged, BeginStop, EndStop
<1>10. ASSUME NEW t \in Tasks, LoopStep(t)
       PROVE  CountInv'
  <2>1. Quiet
    BY <1>10, QuietSteps
  <2>2. UNCHANGED <<snaps, lost>> \/ \E status, excused : Holds(t) /\ Store(t, status, excused)
    BY <1>10, LoopView
  <2> QED BY <1>2, <1>7, <2>1, <2>2 DEF Quiet
<1> QED BY <1>3, <1>4, <1>5, <1>6, <1>8, <1>9, <1>10 DEF Next

LEMMA WindowInit == Init => WindowInv
<1> SUFFICES ASSUME Init PROVE WindowInv
  OBVIOUS
<1>1. rows = {} /\ snaps = {} /\ provider \in Providers
  BY DEF Init
<1>2. \A t \in Tasks : ~Holds(t)
  <2>1. \A x \in {"sleeping", "none"} : [NoLoop EXCEPT !.phase = x].phase = x
    BY <1>1, Records DEF Live
  <2> QED BY <2>1 DEF Init, Holds
<1> QED BY <1>1, <1>2, FS_EmptySet DEF WindowInv, RowsInv, CleanInv, NewestInv, StartInv, CountInv,
                                       AlertInv, MismatchIsExplained, Holds

(* Where the rows carry the selected provider, every stored mismatch is     *)
(* excused by what was in flight, what left no row or one without its cost, *)
(* or a missing baseline: a check of a quiet proxy whose rows have their    *)
(* costs compares equal sums, for any number of requests, providers, posts  *)
(* and restarts.                                                            *)
THEOREM MismatchHasACause ==
  ASSUME OwnColumn
  PROVE  Spec => []MismatchIsExplained
<1>1. TypeInv /\ LoopInv /\ WindowInv /\ [Next]_vars => WindowInv'
  BY RowsStep, CleanStep, NewestStep, StartStep, CountStep DEF WindowInv
<1>2. WindowInv => MismatchIsExplained
  BY DEF WindowInv
<1> QED BY <1>1, <1>2, WindowInit, TypesHold, PTL DEF Spec
=============================================================================
