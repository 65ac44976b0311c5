-------------------------- MODULE InterceptReloadProofs --------------------------
(***************************************************************************)
(* Proofs about InterceptReload, for any set of handlers, any number of     *)
(* reloads and any number of calls.                                         *)
(***************************************************************************)
EXTENDS InterceptReload, TLAPS

USE ReloadsAssumption, CallsAssumption

-----------------------------------------------------------------------------
(* A FIFO lock as the sequence of those that are at it                      *)

Elements(s) == {s[k] : k \in 1..Len(s)}

Distinct(s) == \A j, k \in 1..Len(s) : s[j] = s[k] => j = k

LEMMA Enqueue ==
  ASSUME NEW S, NEW s \in Seq(S), NEW e \in S, e \notin Elements(s), Distinct(s)
  PROVE  /\ Append(s, e) \in Seq(S)
         /\ Elements(Append(s, e)) = Elements(s) \cup {e}
         /\ Distinct(Append(s, e))
         /\ Append(s, e) # <<>>
         /\ s = <<>> => Head(Append(s, e)) = e
         /\ s # <<>> => Head(Append(s, e)) = Head(s)
<1> DEFINE t == Append(s, e)
<1>1. /\ t \in Seq(S)
      /\ Len(t) = Len(s) + 1
      /\ Len(s) \in Nat
      /\ t[Len(s) + 1] = e
      /\ \A k \in 1..Len(s) : t[k] = s[k]
  OBVIOUS
<1>2. 1..(Len(s) + 1) = (1..Len(s)) \cup {Len(s) + 1}
  BY <1>1
<1> HIDE DEF t
<1>3. Elements(t) = Elements(s) \cup {e}
  BY <1>1, <1>2 DEF Elements
<1>4. Distinct(t)
  BY <1>1 DEF Distinct, Elements
<1>5. /\ t # <<>>
      /\ s = <<>> => Head(t) = e
      /\ s # <<>> => Head(t) = Head(s)
  BY DEF t
<1> QED BY <1>1, <1>3, <1>4, <1>5 DEF t

LEMMA Dequeue ==
  ASSUME NEW S, NEW s \in Seq(S), s # <<>>, Distinct(s)
  PROVE  /\ Tail(s) \in Seq(S)
         /\ Elements(Tail(s)) = Elements(s) \ {Head(s)}
         /\ Distinct(Tail(s))
<1> DEFINE t == Tail(s)
<1>1. /\ t \in Seq(S)
      /\ Len(s) \in Nat \ {0}
      /\ Len(t) = Len(s) - 1
      /\ \A k \in 1..Len(t) : t[k] = s[k + 1]
      /\ Head(s) = s[1]
  OBVIOUS
<1> HIDE DEF t
<1>2. Elements(t) \subseteq Elements(s) \ {Head(s)}
  BY <1>1 DEF Elements, Distinct
<1>3. Elements(s) \ {Head(s)} \subseteq Elements(t)
  <2> SUFFICES ASSUME NEW k \in 1..Len(s), s[k] # Head(s)
               PROVE  s[k] \in Elements(t)
    BY DEF Elements
  <2>1. k - 1 \in 1..Len(t) /\ t[k - 1] = s[k]
    BY <1>1
  <2> QED BY <2>1 DEF Elements
<1>4. Distinct(t)
  BY <1>1 DEF Distinct
<1> QED BY <1>1, <1>2, <1>3, <1>4 DEF t

-----------------------------------------------------------------------------
(* The inductive invariant *)

(* Whoever is in a call is the first at the lock of its instance, and        *)
(* nobody is at a lock twice.  A call that is not over is not counted yet.   *)
LockInv ==
  /\ \A i \in Instances : Distinct(lock[i])
  /\ \A h \in Handlers : pc[h] = "calling" => Holds(h)
  /\ \A h \in Handlers : pc[h] \in {"waiting", "calling"} => made[h] < MaxCalls

(* What the instance has got while the manager is suspended.                *)
ManagerInv ==
  /\ manager \in {"spawning", "initializing", "undoing"} => session = {}
  /\ manager = "initializing" => app \in procs
  /\ manager = "spawning" => procs \subseteq lost
  /\ manager \in {"listing", "closing", "exiting"} => session = {app}
  /\ manager = "closing" => app < MaxReloads

IInv == TypeOK /\ LockInv /\ ManagerInv /\ NoStraySession

LEMMA InitIInv == Init => IInv
<1> SUFFICES ASSUME Init PROVE IInv
  OBVIOUS
<1> USE DEF Init
<1>1. 0 \in Instances
  BY DEF Instances
<1>2. \A i \in Instances : lock[i] = <<>> /\ InLock(i) = {}
  BY DEF InLock
<1>3. TypeOK
  BY <1>1, <1>2 DEF TypeOK, ManagerStates, HandlerStates
<1>4. LockInv
  BY <1>2 DEF LockInv, Distinct
<1> QED BY <1>3, <1>4 DEF IInv, ManagerInv, NoStraySession

(* The manager touches neither the locks nor the handlers.                  *)
LEMMA ManageIInv ==
  ASSUME IInv, Manage \/ UNCHANGED vars
  PROVE  IInv'
<1> USE DEF Replace, Forget, CloseStack, handlers, instances, stacks, vars
<1>1. UNCHANGED handlers
  BY DEF Manage, Spawned, SpawnFails, Initialized, InitializeFails, StartUndone,
         ToolsListed, ListToolsFails, ReloadBegins, ReloadReplaces, ReloadIdle,
         Shutdown, ExitCloses
<1>2. /\ app' \in Instances
      /\ exposes' \in SUBSET Instances
      /\ session' \in SUBSET Instances
      /\ started' \in SUBSET Instances
      /\ procs' \in SUBSET Instances
      /\ lost' \in SUBSET Instances
      /\ manager' \in ManagerStates
      /\ serving' \in BOOLEAN
  <2> USE DEF IInv, TypeOK, ManagerInv, ManagerStates, Instances
  <2>1. CASE \/ Spawned \/ SpawnFails \/ Initialized \/ InitializeFails
             \/ ToolsListed \/ ListToolsFails
    BY <2>1 DEF Spawned, SpawnFails, Initialized, InitializeFails, ToolsListed,
                ListToolsFails
  <2>2. CASE ReloadBegins \/ UNCHANGED vars
    BY <2>2 DEF ReloadBegins
  <2>3. ASSUME NEW closed \in BOOLEAN,
               StartUndone(closed) \/ Shutdown(closed) \/ ExitCloses(closed)
        PROVE  /\ app' \in Instances
               /\ exposes' \in SUBSET Instances
               /\ session' \in SUBSET Instances
               /\ started' \in SUBSET Instances
               /\ procs' \in SUBSET Instances
               /\ lost' \in SUBSET Instances
               /\ manager' \in ManagerStates
               /\ serving' \in BOOLEAN
    BY <2>3 DEF StartUndone, Shutdown, ExitCloses
  <2>4. ASSUME NEW new \in Configs, NEW closed \in BOOLEAN,
               ReloadReplaces(new, closed) \/ ReloadIdle(new)
        PROVE  /\ app' \in Instances
               /\ exposes' \in SUBSET Instances
               /\ session' \in SUBSET Instances
               /\ started' \in SUBSET Instances
               /\ procs' \in SUBSET Instances
               /\ lost' \in SUBSET Instances
               /\ manager' \in ManagerStates
               /\ serving' \in BOOLEAN
    <3>1. app < MaxReloads
      BY <2>4 DEF ReloadReplaces, ReloadIdle
    <3>2. app + 1 \in Instances
      BY <3>1
    <3> QED BY <2>4, <3>2 DEF ReloadReplaces, ReloadIdle
  <2> QED BY <2>1, <2>2, <2>3, <2>4 DEF Manage
<1>3. TypeOK' /\ LockInv'
  BY <1>1, <1>2 DEF IInv, TypeOK, LockInv, InLock, Holds
<1>4. ManagerInv' /\ NoStraySession'
  <2> USE DEF IInv, TypeOK, ManagerInv, NoStraySession
  <2>1. CASE \/ Spawned \/ SpawnFails \/ Initialized \/ InitializeFails
             \/ ToolsListed \/ ListToolsFails
    BY <2>1 DEF Spawned, SpawnFails, Initialized, InitializeFails, ToolsListed,
                ListToolsFails
  <2>2. CASE ReloadBegins \/ UNCHANGED vars
    BY <2>2 DEF ReloadBegins
  <2>3. ASSUME NEW closed \in BOOLEAN,
               StartUndone(closed) \/ Shutdown(closed) \/ ExitCloses(closed)
        PROVE  ManagerInv' /\ NoStraySession'
    <3>1. CASE StartUndone(closed)
      BY <3>1 DEF StartUndone
    <3>2. CASE Shutdown(closed)
      <4>1. CASE app \in session
        BY <3>2, <4>1 DEF Shutdown
      <4>2. CASE app \notin session
        <5>1. session = {} /\ manager \in {"spawning", "initializing", "undoing", "idle", "down"}
          BY <4>2 DEF ManagerStates
        <5>2. manager \in {"spawning", "idle", "down"} => procs \subseteq lost
          BY <5>1
        <5>3. procs' \subseteq lost'
          BY <3>2, <5>1, <5>2 DEF Shutdown
        <5>4. manager' = "down" /\ session' = {} /\ started' = {}
          BY <3>2, <4>2, <5>1 DEF Shutdown
        <5> QED BY <5>3, <5>4
      <4> QED BY <4>1, <4>2
    <3>3. CASE ExitCloses(closed)
      BY <3>3 DEF ExitCloses
    <3> QED BY <2>3, <3>1, <3>2, <3>3
  <2>4. ASSUME NEW new \in Configs, NEW closed \in BOOLEAN,
               ReloadReplaces(new, closed) \/ ReloadIdle(new)
        PROVE  ManagerInv' /\ NoStraySession'
    BY <2>4 DEF ReloadReplaces, ReloadIdle
  <2> QED BY <2>1, <2>2, <2>3, <2>4 DEF Manage
<1> QED BY <1>3, <1>4 DEF IInv

(* A handler leaves the instances and the manager alone.                    *)
LEMMA SameManager ==
  ASSUME ManagerInv, NoStraySession, UNCHANGED <<instances, stacks, manager>>
  PROVE  ManagerInv' /\ NoStraySession'
BY DEF ManagerInv, NoStraySession, instances, stacks

(* Steps that change no lock and take no lock.                              *)
LEMMA OutsideIInv ==
  ASSUME IInv, NEW h \in Handlers, Capture(h) \/ CallRaises(h) \/ Leave(h)
  PROVE  IInv'
<1> USE DEF Capture, CallRaises, Leave, Move, instances, stacks
<1>1. UNCHANGED <<instances, stacks, manager, serving, lock, made>>
  OBVIOUS
<1>2. /\ pc' \in [Handlers -> HandlerStates]
      /\ uses' \in [Handlers -> Instances]
  BY DEF IInv, TypeOK, HandlerStates
<1>3. \A g \in Handlers :
        /\ pc'[g] \in {"waiting", "calling"} <=> pc[g] \in {"waiting", "calling"}
        /\ pc'[g] = "calling" => pc[g] = "calling"
        /\ pc[g] \in {"waiting", "calling"} => uses'[g] = uses[g]
  BY DEF IInv, TypeOK
<1>4. TypeOK'
  BY <1>1, <1>2, <1>3 DEF IInv, TypeOK, InLock
<1>5. LockInv'
  BY <1>1, <1>2, <1>3 DEF IInv, LockInv, Holds
<1> QED BY <1>1, <1>4, <1>5, SameManager DEF IInv

(* A handler that calls joins the lock's queue, first if nobody is there.   *)
LEMMA CallIInv ==
  ASSUME IInv, NEW h \in Handlers, Call(h)
  PROVE  IInv'
<1> DEFINE i == uses[h]
           q == Append(lock[i], h)
<1>1. /\ UNCHANGED <<instances, stacks, manager, serving, uses, made>>
      /\ pc[h] = "ready"
      /\ lock' = [lock EXCEPT ![i] = q]
      /\ pc' = [pc EXCEPT ![h] = IF lock[i] = <<>> THEN "calling" ELSE "waiting"]
  BY DEF Call, Move
<1>2. i \in Instances /\ lock[i] \in Seq(Handlers) /\ Distinct(lock[i])
  BY DEF IInv, TypeOK, LockInv
<1>3. h \notin Elements(lock[i])
  BY <1>1, <1>2 DEF IInv, TypeOK, InLock, Elements
<1>4. /\ q \in Seq(Handlers)
      /\ Elements(q) = Elements(lock[i]) \cup {h}
      /\ Distinct(q)
      /\ q # <<>>
      /\ lock[i] = <<>> => Head(q) = h
      /\ lock[i] # <<>> => Head(q) = Head(lock[i])
  BY <1>2, <1>3, Enqueue
<1> HIDE DEF q
<1>5. /\ lock' \in [Instances -> Seq(Handlers)]
      /\ lock'[i] = q
      /\ \A j \in Instances \ {i} : lock'[j] = lock[j]
  BY <1>1, <1>2, <1>4 DEF IInv, TypeOK
<1>6. /\ pc' \in [Handlers -> HandlerStates]
      /\ pc'[h] \in {"waiting", "calling"}
      /\ pc'[h] = "calling" => lock[i] = <<>>
      /\ \A g \in Handlers \ {h} : pc'[g] = pc[g]
  BY <1>1 DEF IInv, TypeOK, HandlerStates
<1>7. TypeOK'
  <2>1. \A j \in Instances :
          InLock(j) = Elements(lock[j]) /\ InLock(j)' = Elements(lock'[j])
    BY DEF InLock, Elements
  <2>2. ASSUME NEW j \in Instances
        PROVE  InLock(j)' = {g \in Handlers : uses'[g] = j /\ pc'[g] \in {"waiting", "calling"}}
    <3>1. InLock(j) = {g \in Handlers : uses[g] = j /\ pc[g] \in {"waiting", "calling"}}
      BY DEF IInv, TypeOK
    <3>2. CASE j = i
      <4>1. InLock(j)' = InLock(j) \cup {h}
        BY <1>4, <1>5, <2>1, <3>2
      <4> QED BY <4>1, <3>1, <3>2, <1>1, <1>6
    <3>3. CASE j # i
      <4>1. InLock(j)' = InLock(j)
        BY <1>5, <2>1, <3>3
      <4> QED BY <4>1, <3>1, <3>3, <1>1, <1>6
    <3> QED BY <3>2, <3>3
  <2> QED BY <2>2, <1>1, <1>5, <1>6 DEF IInv, TypeOK, instances, stacks
<1>8. LockInv'
  <2>1. \A j \in Instances : Distinct(lock'[j])
    BY <1>4, <1>5 DEF IInv, LockInv
  <2>2. ASSUME NEW g \in Handlers, pc'[g] = "calling"
        PROVE  Holds(g)'
    <3>1. CASE g = h
      BY <3>1, <2>2, <1>1, <1>4, <1>5, <1>6 DEF Holds
    <3>2. CASE g # h
      <4>1. pc[g] = "calling" /\ Holds(g) /\ uses[g] \in Instances
        BY <3>2, <2>2, <1>6 DEF IInv, TypeOK, LockInv
      <4> QED BY <4>1, <1>1, <1>4, <1>5 DEF Holds
    <3> QED BY <3>1, <3>2
  <2>3. \A g \in Handlers : pc'[g] \in {"waiting", "calling"} => made'[g] < MaxCalls
    BY <1>1, <1>6 DEF Call, IInv, LockInv
  <2> QED BY <2>1, <2>2, <2>3 DEF LockInv
<1> QED BY <1>1, <1>7, <1>8, SameManager DEF IInv

(* A waiter that has become the first starts its call.                      *)
LEMMA AcquireIInv ==
  ASSUME IInv, NEW h \in Handlers, Acquire(h)
  PROVE  IInv'
<1> USE DEF Acquire, Move
<1>1. UNCHANGED <<instances, stacks, manager, serving, lock, uses, made>>
  OBVIOUS
<1>2. /\ pc' \in [Handlers -> HandlerStates]
      /\ \A g \in Handlers :
           pc'[g] \in {"waiting", "calling"} <=> pc[g] \in {"waiting", "calling"}
  BY DEF IInv, TypeOK, HandlerStates
<1>3. \A i \in Instances : InLock(i)' = InLock(i)
  BY <1>1 DEF InLock
<1>4. TypeOK'
  BY <1>1, <1>2, <1>3 DEF IInv, TypeOK, instances, stacks
<1>5. LockInv'
  <2>1. Holds(h) /\ \A g \in Handlers \ {h} : pc'[g] = pc[g]
    BY DEF IInv, TypeOK
  <2>2. \A g \in Handlers : Holds(g)' <=> Holds(g)
    BY <1>1 DEF Holds
  <2> QED BY <1>1, <1>2, <2>1, <2>2 DEF IInv, LockInv
<1> QED BY <1>1, <1>4, <1>5, SameManager DEF IInv

(* A text for the model: the first at the lock leaves, so that nobody else  *)
(* was in a call and nobody is now.                                         *)
LEMMA OutputIInv ==
  ASSUME IInv, NEW h \in Handlers, AcquireAfterStop(h) \/ Return(h)
  PROVE  IInv'
<1> DEFINE i == uses[h]
           q == Tail(lock[i])
<1>1. /\ UNCHANGED <<instances, stacks, manager, serving, uses>>
      /\ pc[h] \in {"waiting", "calling"}
      /\ Holds(h)
      /\ lock' = [lock EXCEPT ![i] = q]
      /\ made' = [made EXCEPT ![h] = @ + 1]
      /\ pc' = [pc EXCEPT ![h] = "ready"]
  BY DEF AcquireAfterStop, Return, Output, Move, IInv, LockInv
<1>2. i \in Instances /\ lock[i] \in Seq(Handlers) /\ Distinct(lock[i])
  BY DEF IInv, TypeOK, LockInv
<1>3. lock[i] # <<>> /\ Head(lock[i]) = h
  BY <1>1 DEF Holds
<1>4. /\ q \in Seq(Handlers)
      /\ Elements(q) = Elements(lock[i]) \ {h}
      /\ Distinct(q)
  BY <1>2, <1>3, Dequeue
<1> HIDE DEF q
<1>5. /\ lock' \in [Instances -> Seq(Handlers)]
      /\ lock'[i] = q
      /\ \A j \in Instances \ {i} : lock'[j] = lock[j]
  BY <1>1, <1>2, <1>4 DEF IInv, TypeOK
<1>6. /\ pc' \in [Handlers -> HandlerStates]
      /\ pc'[h] = "ready"
      /\ \A g \in Handlers \ {h} : pc'[g] = pc[g]
  BY <1>1 DEF IInv, TypeOK, HandlerStates
<1>7. made' \in [Handlers -> 0..MaxCalls]
  <2>1. made[h] \in 0..MaxCalls /\ made[h] < MaxCalls
    BY <1>1 DEF IInv, TypeOK, LockInv
  <2> QED BY <1>1, <2>1 DEF IInv, TypeOK
<1>8. TypeOK'
  <2>1. \A j \in Instances :
          InLock(j) = Elements(lock[j]) /\ InLock(j)' = Elements(lock'[j])
    BY DEF InLock, Elements
  <2>2. ASSUME NEW j \in Instances
        PROVE  InLock(j)' = {g \in Handlers : uses'[g] = j /\ pc'[g] \in {"waiting", "calling"}}
    <3>1. InLock(j) = {g \in Handlers : uses[g] = j /\ pc[g] \in {"waiting", "calling"}}
      BY DEF IInv, TypeOK
    <3>2. CASE j = i
      <4>1. InLock(j)' = InLock(j) \ {h}
        BY <1>4, <1>5, <2>1, <3>2
      <4> QED BY <4>1, <3>1, <3>2, <1>1, <1>6
    <3>3. CASE j # i
      <4>1. InLock(j)' = InLock(j)
        BY <1>5, <2>1, <3>3
      <4> QED BY <4>1, <3>1, <3>3, <1>1, <1>6
    <3> QED BY <3>2, <3>3
  <2> QED BY <2>2, <1>1, <1>5, <1>6, <1>7 DEF IInv, TypeOK, instances, stacks
<1>9. LockInv'
  <2>1. \A j \in Instances : Distinct(lock'[j])
    BY <1>4, <1>5 DEF IInv, LockInv
  <2>2. ASSUME NEW g \in Handlers, pc'[g] = "calling"
        PROVE  Holds(g)'
    <3>1. g # h /\ pc[g] = "calling" /\ Holds(g) /\ uses[g] \in Instances
      BY <2>2, <1>6 DEF IInv, TypeOK, LockInv
    <3>2. uses[g] # i
      BY <3>1, <1>3 DEF Holds
    <3> QED BY <3>1, <3>2, <1>1, <1>5 DEF Holds
  <2>3. \A g \in Handlers : pc'[g] \in {"waiting", "calling"} => made'[g] < MaxCalls
    BY <1>1, <1>6 DEF IInv, TypeOK, LockInv
  <2> QED BY <2>1, <2>2, <2>3 DEF LockInv
<1> QED BY <1>1, <1>8, <1>9, SameManager DEF IInv

(* Every reachable state satisfies the inductive invariant.                 *)
THEOREM Invariance == Spec => []IInv
<1>1. IInv /\ [Next]_vars => IInv'
  <2> SUFFICES ASSUME IInv, [Next]_vars PROVE IInv'
    OBVIOUS
  <2>1. CASE Manage \/ UNCHANGED vars
    BY <2>1, ManageIInv
  <2>2. ASSUME NEW h \in Handlers,
               Capture(h) \/ CallRaises(h) \/ Call(h) \/ InCall(h) \/ Leave(h)
        PROVE  IInv'
    BY <2>2, OutsideIInv, CallIInv, AcquireIInv, OutputIInv DEF InCall
  <2> QED BY <2>1, <2>2 DEF Next
<1> QED BY <1>1, InitIInv, PTL DEF Spec

-----------------------------------------------------------------------------

(* Every variable keeps its type, and a lock knows exactly the handlers     *)
(* that are in call().                                                      *)
THEOREM TypeCorrect == Spec => []TypeOK
<1>1. IInv => TypeOK
  BY DEF IInv
<1> QED BY <1>1, Invariance, PTL

(* A session serves one call at a time, however often it is replaced.       *)
THEOREM CallsAreSerial == Spec => []OneCallAtATime
<1>1. IInv => OneCallAtATime
  BY DEF IInv, LockInv, Holds, OneCallAtATime
<1> QED BY <1>1, Invariance, PTL

(* No reload, failed start or shutdown leaves a session behind, and a server *)
(* process only where closing its stack raised or was cut off.              *)
THEOREM NoProcessIsForgotten == Spec => []NoStraySession
<1>1. IInv => NoStraySession
  BY DEF IInv
<1> QED BY <1>1, Invariance, PTL

(* No request fails for want of a session while the application's instance   *)
(* is completely started.                                                   *)
THEOREM CrashesNeedAReload == Spec => CrashNeedsReload
<1> DEFINE NoCrash ==
      \A h \in Handlers : pc[h] # "crashed" /\ pc'[h] = "crashed" =>
        ~(manager = "idle" /\ app \in started /\ uses[h] = app)
<1>1. IInv /\ [Next]_vars => [NoCrash]_vars
  <2> SUFFICES ASSUME IInv, Next,
                      NEW h \in Handlers, pc[h] # "crashed", pc'[h] = "crashed"
               PROVE  ~(app \in started /\ uses[h] = app)
    OBVIOUS
  <2>1. CallRaises(h)
    <3>1. CASE Manage
      BY <3>1 DEF Manage, Spawned, SpawnFails, Initialized, InitializeFails,
           StartUndone, ToolsListed, ListToolsFails, ReloadBegins, ReloadReplaces,
           ReloadIdle, Shutdown, ExitCloses, handlers
    <3>2. ASSUME NEW g \in Handlers,
                 Capture(g) \/ CallRaises(g) \/ Call(g) \/ InCall(g) \/ Leave(g)
          PROVE  CallRaises(h)
      BY <3>2 DEF IInv, TypeOK, Capture, CallRaises, Call, InCall, Leave, Acquire,
           AcquireAfterStop, Return, Output, Move
    <3> QED BY <3>1, <3>2 DEF Next
  <2>2. uses[h] \notin session
    BY <2>1 DEF CallRaises
  <2> QED BY <2>2 DEF IInv, NoStraySession
<1>2. Spec => [][NoCrash]_vars
  BY <1>1, Invariance, PTL DEF Spec
<1> QED BY <1>2 DEF CrashNeedsReload

=============================================================================
