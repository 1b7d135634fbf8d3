---------------------- MODULE DeliveryLifecycleProofs ----------------------
(***************************************************************************)
(* Proofs about what becomes of an accepted delivery: that it is not lost, *)
(* for any number of crashes, exceptions, expiring locks and replays, and, *)
(* as long as nothing fails, that its row goes through the life that       *)
(* DeliveryLifecycle describes and its audit trail is complete.            *)
(***************************************************************************)
EXTENDS DeliveryPipelineProofs

(***************************************************************************)
(* That a delivery sits in the pending list is not enough: its handler may *)
(* be about to acknowledge it. An entry carries its delivery as long as    *)
(* nobody handles it or its one handler has not handed the delivery over.  *)
(***************************************************************************)
AtWork == {"load", "lock", "peek", "yield", "defer", "gates", "begin", "send",
           "record", "schedule"}
Working(v) == v.pc \in AtWork \/ (v.pc = "release" /\ ~v.ack)

Carries(s, d) ==
    pel[s] = d /\ \A w \in Workers : wk[w].slot = s => Working(wk[w])

Waiting(d) == d \in ToSet(stream) \/ d \in zset \/ InRequest(d)
Carried(d) == Waiting(d) \/ \E s \in Slots : Carries(s, d)

Owed(d) ==
    /\ row[d].status \notin Settled \cup {"absent"}
    /\ d \notin abandoned
    /\ EndpointOf[d] \notin deactivated

\* An entry that is being handled is pending, and has one handler.
OneHandler ==
    /\ \A w \in Workers : wk[w].pc # "idle" => pel[wk[w].slot] = wk[w].cur
    /\ \A v, w \in Workers :
          wk[v].pc # "idle" /\ wk[w].pc # "idle" /\ wk[v].slot = wk[w].slot => v = w

AllCarried == \A d \in Deliveries : Owed(d) => Carried(d)

IdleRequests == \A r \in Requests : req[r].pc = "idle" => req[r].todo = {}
ActiveKnown  == \A e \in Endpoints : epStatus[e] # "active" => e \in deactivated

LossInv ==
    /\ TypeOK /\ IdleRequests /\ ActiveKnown
    /\ spent.steals = 0 => OneHandler /\ AllCarried

-----------------------------------------------------------------------------
\* XADD and a read, as sets of entries.
LEMMA StreamFacts ==
    ASSUME NEW S, NEW q \in Seq(S)
    PROVE  /\ \A x \in S : ToSet(Append(q, x)) = ToSet(q) \cup {x}
           /\ q # <<>> => ToSet(q) = {Head(q)} \cup ToSet(Tail(q))
<1>1. ASSUME NEW x \in S PROVE ToSet(Append(q, x)) = ToSet(q) \cup {x}
  <2>1. /\ Append(q, x) \in Seq(S) /\ Len(Append(q, x)) = Len(q) + 1
        /\ \A i \in 1..Len(q) : Append(q, x)[i] = q[i]
        /\ Append(q, x)[Len(q) + 1] = x
    OBVIOUS
  <2>2. DOMAIN q = 1..Len(q) /\ DOMAIN Append(q, x) = 1..(Len(q) + 1) /\ Len(q) \in Nat
    BY <2>1
  <2>3. \A y : y \in ToSet(Append(q, x)) => y \in ToSet(q) \cup {x}
    BY <2>1, <2>2 DEF ToSet
  <2>4. \A y : y \in ToSet(q) \cup {x} => y \in ToSet(Append(q, x))
    BY <2>1, <2>2 DEF ToSet
  <2> QED  BY <2>3, <2>4
<1>2. ASSUME q # <<>> PROVE ToSet(q) = {Head(q)} \cup ToSet(Tail(q))
  <2>1. /\ Len(q) \in Nat /\ Len(q) > 0 /\ Head(q) = q[1]
        /\ Len(Tail(q)) = Len(q) - 1
        /\ \A i \in 1..(Len(q) - 1) : Tail(q)[i] = q[i + 1]
        /\ DOMAIN q = 1..Len(q) /\ DOMAIN Tail(q) = 1..(Len(q) - 1)
    BY <1>2
  <2>2. \A y : y \in ToSet(q) => y \in {Head(q)} \cup ToSet(Tail(q))
    <3>1. SUFFICES ASSUME NEW i \in 1..Len(q), i # 1
                   PROVE  q[i] \in ToSet(Tail(q))
      BY <2>1 DEF ToSet
    <3>2. i - 1 \in 1..(Len(q) - 1) /\ Tail(q)[i - 1] = q[i]
      BY <2>1, <3>1
    <3> QED  BY <2>1, <3>2 DEF ToSet
  <2>3. \A y : y \in {Head(q)} \cup ToSet(Tail(q)) => y \in ToSet(q)
    BY <2>1 DEF ToSet
  <2> QED  BY <2>2, <2>3
<1> QED  BY <1>1, <1>2

(***************************************************************************)
(* Small invariants: an idle request has nothing to do, and only an        *)
(* endpoint that has been deactivated is inactive.                         *)
(***************************************************************************)
LEMMA RequestsStep ==
    ASSUME LossInv, [Next]_vars
    PROVE  IdleRequests'
<1>0. req \in [Requests -> RequestState] /\ IdleRequests
  BY DEF LossInv, TypeOK
<1>1. ASSUME NEW r \in Requests, NEW ev \in Events, Ingest(r, ev)
      PROVE  IdleRequests'
  BY <1>0, <1>1 DEF Ingest, IdleRequests
<1>2. ASSUME NEW r \in Requests, NEW e \in Endpoints,
             NEW chosen \in SUBSET Deliveries, NEW kind \in ReplayKinds,
             ReplaySelect(r, e, chosen, kind)
      PROVE  IdleRequests'
  BY <1>0, <1>2 DEF ReplaySelect, IdleRequests
<1>3. ASSUME NEW r \in Requests, Serve(r)
      PROVE  IdleRequests'
  <2>0. req[r] \in RequestRecord
    BY <1>0 DEF RequestState
  <2>1. CASE ReplayCommit(r) \/ ClearRetry(r) \/ EnqueueOrdered(r)
    BY <1>0, <2>0, <2>1
    DEF ReplayCommit, ClearRetry, EnqueueOrdered, IdleRequests, RequestRecord
  <2>2. CASE EnqueueDelivery(r)
    <3>1. req'[r].pc = "next" /\ \A k \in Requests : k # r => req'[k] = req[k]
      BY <1>0, <2>0, <2>2 DEF EnqueueDelivery, RequestRecord
    <3> QED  BY <1>0, <3>1 DEF IdleRequests
  <2>3. CASE EnqueueNext(r)
    <3>1. CASE req' = [req EXCEPT ![r] = NoRequest]
      BY <1>0, <3>1 DEF IdleRequests, NoRequest
    <3>2. ASSUME NEW d \in req[r].todo,
                 req' = [req EXCEPT ![r].pc = FirstStep(req[r].kind),
                                    ![r].cur = d, ![r].todo = @ \ {d}]
          PROVE  IdleRequests'
      <4>1. FirstStep(req[r].kind) # "idle"
        BY <2>0 DEF RequestRecord, FirstStep, ReplayKinds
      <4>2. req'[r].pc = FirstStep(req[r].kind)
        BY <1>0, <2>0, <3>2 DEF RequestRecord
      <4>3. \A k \in Requests : k # r => req'[k] = req[k]
        BY <1>0, <3>2
      <4> QED  BY <1>0, <4>1, <4>2, <4>3 DEF IdleRequests
    <3> QED  BY <2>3, <3>1, <3>2 DEF EnqueueNext
  <2> QED
    BY <1>3, <2>1, <2>2, <2>3 DEF Serve
<1>4. ASSUME NEW r \in Requests, RequestDies(r)
      PROVE  IdleRequests'
  BY <1>0, <1>4 DEF RequestDies, IdleRequests, NoRequest
<1>5. CASE UNCHANGED req
  BY <1>0, <1>5 DEF IdleRequests
<1> QED
  BY <1>1, <1>2, <1>3, <1>4, <1>5
  DEF Next, vars, PatchEndpoint, MoveDue, Read, Reclaim, Handle, Load, AcquireLock,
      PeekHead, YieldLock, Defer, PassGates, FailGates, AutoDisable, Begin, Send,
      Record, Schedule, Refresh, PopHead, ReleaseLock, Ack, Raises, Crash, ExpireLock

\* An endpoint becomes inactive only by being deactivated.
LEMMA ActiveStep ==
    ASSUME LossInv, [Next]_vars
    PROVE  ActiveKnown'
<1>0. /\ epStatus \in [Endpoints -> {"active", "paused", "disabled"}]
      /\ wk \in [Workers -> WorkerState] /\ ActiveKnown
  BY DEF LossInv, TypeOK, TypeDb
<1>1. ASSUME NEW e \in Endpoints, NEW s \in {"active", "paused", "disabled"},
             PatchEndpoint(e, s)
      PROVE  ActiveKnown'
  BY <1>0, <1>1 DEF PatchEndpoint, ActiveKnown
<1>2. ASSUME NEW w \in Workers, AutoDisable(w)
      PROVE  ActiveKnown'
  BY <1>0, <1>2 DEF AutoDisable, ActiveKnown
<1>3. CASE UNCHANGED <<epStatus, deactivated>>
  BY <1>0, <1>3 DEF ActiveKnown
<1> QED
  BY <1>1, <1>2, <1>3
  DEF Next, vars, Serve, Ingest, ReplaySelect, ReplayCommit, EnqueueNext, ClearRetry,
      EnqueueOrdered, EnqueueDelivery, RequestDies, MoveDue, Read, Reclaim, Handle,
      Load, AcquireLock, PeekHead, YieldLock, Defer, PassGates, FailGates, Begin, Send,
      Record, Schedule, Refresh, PopHead, ReleaseLock, Ack, Raises, Crash, ExpireLock,
      db, history

-----------------------------------------------------------------------------
(***************************************************************************)
(* A step that leaves the pending list and its handlers alone.             *)
(***************************************************************************)
LEMMA Elsewhere ==
    ASSUME OneHandler, AllCarried, UNCHANGED <<wk, pel>>,
           \A d \in Deliveries : Owed(d)' => Owed(d) \/ Waiting(d)',
           \A d \in Deliveries : Owed(d)' /\ Waiting(d) => Waiting(d)'
    PROVE  OneHandler' /\ AllCarried'
<1>1. OneHandler'
  BY DEF OneHandler
<1>2. ASSUME NEW d \in Deliveries, Owed(d)'
      PROVE  Carried(d)'
  <2>1. CASE Waiting(d)'
    BY <2>1 DEF Carried
  <2>2. CASE Owed(d) /\ ~Waiting(d)
    <3>1. PICK s \in Slots : Carries(s, d)
      BY <2>2 DEF AllCarried, Carried
    <3>2. Carries(s, d)'
      BY <3>1 DEF Carries
    <3> QED  BY <3>2 DEF Carried
  <2> QED
    BY <1>2, <2>1, <2>2
<1> QED
  BY <1>1, <1>2 DEF AllCarried

(***************************************************************************)
(* A step of a handler that keeps its entry: it goes on with its delivery, *)
(* or drops it unacknowledged. Nothing of the others changes, and if it    *)
(* stops working on a delivery that is owed, the delivery waits elsewhere. *)
(***************************************************************************)
LEMMA HandlerSteps ==
    ASSUME TypeOK, OneHandler, AllCarried,
           NEW w \in Workers, wk[w].pc # "idle", NEW v, Become(w, v),
           NEW s, s = wk[w].slot, NEW c, c = wk[w].cur,
           v = Idle \/ (v.pc # "idle" /\ v.slot = s /\ v.cur = c),
           UNCHANGED <<pel, stream, req>>, zset \subseteq zset',
           \A d \in Deliveries : d # c /\ Owed(d)' => Owed(d),
           Owed(c)' => \/ c \in zset' \/ Working(v) \/ v = Idle
                       \/ Owed(c) /\ ~Working(wk[w])
    PROVE  OneHandler' /\ AllCarried'
<1>0. /\ wk \in [Workers -> WorkerState] /\ s \in Slots /\ c \in Deliveries
      /\ None \notin Slots /\ Idle.pc = "idle" /\ Idle.slot = None
  BY HandlerFacts, IdentityAssumption DEF TypeOK, Idle
<1>1. wk'[w] = v /\ \A u \in Workers : u # w => wk'[u] = wk[u]
  BY <1>0 DEF Become
<1>2. \A u \in Workers : wk[u].pc = "idle" => wk[u].slot = None
  BY <1>0 DEF WorkerState, Idle
<1>3. \A u \in Workers : u # w => wk[u].slot # s
  BY <1>0, <1>2 DEF OneHandler
<1>4. OneHandler'
  <2>1. \A u \in Workers : wk'[u].pc # "idle" =>
            wk[u].pc # "idle" /\ wk'[u].slot = wk[u].slot /\ wk'[u].cur = wk[u].cur
    BY <1>0, <1>1
  <2> QED
    BY <2>1 DEF OneHandler
<1>5. ASSUME NEW d \in Deliveries, Waiting(d)
      PROVE  Waiting(d)'
  BY <1>5 DEF Waiting, InRequest
<1>6. ASSUME NEW d \in Deliveries, Owed(d), NEW t \in Slots, Carries(t, d), t # s
      PROVE  Carried(d)'
  <2>1. \A u \in Workers : wk'[u].slot = t => wk[u].slot = t /\ wk'[u] = wk[u]
    BY <1>0, <1>1, <1>6
  <2>2. Carries(t, d)'
    BY <1>6, <2>1 DEF Carries
  <2> QED  BY <2>2 DEF Carried
<1>7. ASSUME NEW d \in Deliveries, d # c, Owed(d)'
      PROVE  Carried(d)'
  <2>1. Owed(d)
    BY <1>7
  <2>2. pel[s] = c
    BY DEF OneHandler
  <2> QED
    BY <1>5, <1>6, <1>7, <2>1, <2>2 DEF AllCarried, Carried, Carries
<1>8. ASSUME Owed(c)'
      PROVE  Carried(c)'
  <2>1. CASE c \in zset'
    BY <2>1 DEF Carried, Waiting
  <2>2. CASE Working(v) \/ v = Idle
    <3>1. \A u \in Workers : wk'[u].slot = s => Working(wk'[u])
      BY <1>0, <1>1, <1>3, <2>2
    <3>2. Carries(s, c)'
      BY <3>1 DEF Carries, OneHandler
    <3> QED  BY <1>0, <3>2 DEF Carried
  <2>3. CASE Owed(c) /\ ~Working(wk[w])
    <3>1. ~Carries(s, c)
      BY <2>3 DEF Carries
    <3> QED
      BY <1>0, <1>5, <1>6, <2>3, <3>1 DEF AllCarried, Carried
  <2> QED
    BY <1>8, <2>1, <2>2, <2>3
<1> QED
  BY <1>4, <1>7, <1>8 DEF AllCarried

\* What the handler at work is, for the steps below.
LEMMA HandlerAt ==
    ASSUME TypeOK, NEW w \in Workers, wk[w].pc # "idle"
    PROVE  wk[w] \in WorkerRecord /\ wk[w].cur \in Deliveries
  BY HandlerFacts DEF TypeOK

(***************************************************************************)
(* The steps of a handler that write no row.                               *)
(***************************************************************************)
LEMMA QuietSteps ==
    ASSUME LossInv, OneHandler, AllCarried, NEW w \in Workers, NEW c, c = wk[w].cur,
           \/ Load(w) \/ AcquireLock(w) \/ PeekHead(w) \/ YieldLock(w) \/ Defer(w)
           \/ PassGates(w) \/ FailGates(w) \/ AutoDisable(w)
           \/ (\E result \in Results : Send(w, result))
           \/ Schedule(w) \/ Refresh(w) \/ PopHead(w) \/ ReleaseLock(w)
    PROVE  OneHandler' /\ AllCarried'
<1>0. /\ TypeOK /\ wk[w].pc # "idle" /\ wk[w] \in WorkerRecord /\ c \in Deliveries
  <2>1. TypeOK /\ wk[w].pc # "idle"
    BY DEF LossInv, At, Load, AcquireLock, PeekHead, YieldLock, Defer, PassGates,
           FailGates, AutoDisable, Send, Schedule, Refresh, PopHead, ReleaseLock
  <2> QED  BY <2>1, HandlerAt
<1> USE DEF At, Goto, WorkerRecord, Working, AtWork
<1>1. CASE Load(w)
  <2>1. UNCHANGED <<pel, stream, req, zset>> /\ \A d \in Deliveries : Owed(d)' <=> Owed(d)
    BY <1>1 DEF Load, db, queues, history, Owed
  <2>2. Owed(c) => row[c].status \notin Settled /\ epStatus[EndpointOf[c]] = "active"
    BY <1>0, IdentityAssumption DEF Owed, LossInv, ActiveKnown
  <2> DEFINE skip == row[c].status \in Settled \/ epStatus[EndpointOf[c]] # "active"
             p == IF skip THEN "ack" ELSE IF IsOrdered(c) THEN "lock" ELSE "gates"
             v == [wk[w] EXCEPT !.pc = p, !.view = row[c]]
  <2>3. Become(w, v)
    BY <1>1 DEF Load
  <2>4. v.pc = p /\ v.slot = wk[w].slot /\ v.cur = c
    BY <1>0
  <2>5. p # "idle" /\ (Owed(c) => p \in AtWork)
    BY <2>2
  <2> HIDE DEF v, p
  <2> QED
    BY <1>0, <2>1, <2>3, <2>4, <2>5, HandlerSteps
<1>2. CASE AcquireLock(w)
  <2>1. UNCHANGED <<pel, stream, req, zset>> /\ \A d \in Deliveries : Owed(d)' <=> Owed(d)
    BY <1>2 DEF AcquireLock, db, queues, history, Owed
  <2>2. PICK v : /\ Become(w, v) /\ v.pc \in AtWork /\ v.pc # "idle"
                 /\ v.slot = wk[w].slot /\ v.cur = c
    <3>1. CASE Goto(w, "defer")
      <4> DEFINE v == [wk[w] EXCEPT !.pc = "defer"]
      <4>1. v.pc = "defer" /\ v.slot = wk[w].slot /\ v.cur = c
        BY <1>0
      <4>2. Become(w, v)
        BY <3>1
      <4> HIDE DEF v
      <4> QED  BY <4>1, <4>2
    <3>2. CASE Become(w, [wk[w] EXCEPT !.pc = "peek", !.token = TRUE])
      <4> DEFINE v == [wk[w] EXCEPT !.pc = "peek", !.token = TRUE]
      <4>1. v.pc = "peek" /\ v.slot = wk[w].slot /\ v.cur = c
        BY <1>0
      <4>2. Become(w, v)
        BY <3>2
      <4> HIDE DEF v
      <4> QED  BY <4>1, <4>2
    <3> QED  BY <1>2, <3>1, <3>2 DEF AcquireLock
  <2> QED
    BY <1>0, <2>1, <2>2, HandlerSteps
<1>3. CASE PeekHead(w) \/ PassGates(w) \/ FailGates(w) \/ AutoDisable(w)
  <2>1. /\ UNCHANGED <<pel, stream, req, zset>>
        /\ \A d \in Deliveries : Owed(d)' => Owed(d)
    BY <1>3 DEF PeekHead, PassGates, FailGates, AutoDisable, db, queues, history, Owed
  <2>2. PICK p \in {"yield", "gates", "begin", "defer"} : Goto(w, p)
    BY <1>3 DEF PeekHead, PassGates, FailGates, AutoDisable
  <2> DEFINE v == [wk[w] EXCEPT !.pc = p]
  <2>3. v.pc = p /\ v.slot = wk[w].slot /\ v.cur = c /\ Become(w, v)
    BY <1>0, <2>2
  <2> HIDE DEF v
  <2> QED
    BY <1>0, <2>1, <2>2, <2>3, HandlerSteps
<1>4. CASE YieldLock(w)
  <2>1. UNCHANGED <<pel, stream, req, zset>> /\ \A d \in Deliveries : Owed(d)' <=> Owed(d)
    BY <1>4 DEF YieldLock, db, queues, history, Owed
  <2> DEFINE v == [wk[w] EXCEPT !.pc = "defer", !.token = FALSE]
  <2>2. v.pc = "defer" /\ v.slot = wk[w].slot /\ v.cur = c
    BY <1>0
  <2>3. Become(w, v)
    BY <1>4 DEF YieldLock
  <2> HIDE DEF v
  <2> QED
    BY <1>0, <2>1, <2>2, <2>3, HandlerSteps
<1>5. CASE Defer(w) \/ Schedule(w)
  <2>1. /\ UNCHANGED <<pel, stream, req>> /\ zset' = zset \cup {c}
        /\ \A d \in Deliveries : Owed(d)' <=> Owed(d)
    BY <1>5 DEF Defer, Schedule, db, history, Owed
  <2>2. PICK p \in {"release", "ack", "refresh"} : Goto(w, p)
    BY <1>5 DEF Defer, Schedule, Leave
  <2> DEFINE v == [wk[w] EXCEPT !.pc = p]
  <2>3. v.pc = p /\ v.slot = wk[w].slot /\ v.cur = c /\ Become(w, v)
    BY <1>0, <2>2
  <2> HIDE DEF v
  <2> QED
    BY <1>0, <2>1, <2>2, <2>3, HandlerSteps
<1>6. CASE \E result \in Results : Send(w, result)
  <2>0. PICK result \in Results : Send(w, result)
    BY <1>6
  <2>1. UNCHANGED <<pel, stream, req, zset>> /\ \A d \in Deliveries : Owed(d)' <=> Owed(d)
    BY <2>0 DEF Send, db, queues, Owed
  <2> DEFINE v == [wk[w] EXCEPT !.pc = "record", !.result = result]
  <2>2. v.pc = "record" /\ v.slot = wk[w].slot /\ v.cur = c
    BY <1>0
  <2>3. Become(w, v)
    BY <2>0 DEF Send
  <2> HIDE DEF v
  <2> QED
    BY <1>0, <2>1, <2>2, <2>3, HandlerSteps
<1>7. CASE Refresh(w)
  <2>1. UNCHANGED <<pel, stream, req, zset>> /\ \A d \in Deliveries : Owed(d)' <=> Owed(d)
    BY <1>7 DEF Refresh, db, queues, history, Owed
  <2>2. ~Working(wk[w])
    BY <1>7 DEF Refresh
  <2> DEFINE p == IF IsOrdered(c) /\ row[c].status \in Settled THEN "pop" ELSE Leave(w)
             v == [wk[w] EXCEPT !.pc = p, !.view = row[c]]
  <2>3. v.pc = p /\ p # "idle" /\ v.slot = wk[w].slot /\ v.cur = c
    BY <1>0 DEF Leave
  <2>4. Become(w, v)
    BY <1>7 DEF Refresh
  <2> HIDE DEF v, p
  <2> QED
    BY <1>0, <2>1, <2>2, <2>3, <2>4, HandlerSteps
<1>8. CASE PopHead(w)
  <2>1. UNCHANGED <<pel, stream, req, zset>> /\ \A d \in Deliveries : Owed(d)' <=> Owed(d)
    BY <1>8 DEF PopHead, db, queues, history, Owed
  <2>2. ~Working(wk[w])
    BY <1>8 DEF PopHead
  <2> DEFINE p == Leave(w)
             v == [wk[w] EXCEPT !.pc = p]
  <2>3. v.pc = p /\ p # "idle" /\ v.slot = wk[w].slot /\ v.cur = c
    BY <1>0 DEF Leave
  <2>4. Become(w, v)
    BY <1>8 DEF PopHead
  <2> HIDE DEF v, p
  <2> QED
    BY <1>0, <2>1, <2>2, <2>3, <2>4, HandlerSteps
<1>9. CASE ReleaseLock(w)
  <2>1. UNCHANGED <<pel, stream, req, zset>> /\ \A d \in Deliveries : Owed(d)' <=> Owed(d)
    BY <1>9 DEF ReleaseLock, db, queues, history, Owed
  <2>2. CASE wk[w].ack
    <3> DEFINE v == [wk[w] EXCEPT !.pc = "ack", !.token = FALSE]
    <3>1. v.pc = "ack" /\ v.slot = wk[w].slot /\ v.cur = c
      BY <1>0
    <3>2. Become(w, v) /\ ~Working(wk[w])
      BY <1>9, <2>2 DEF ReleaseLock
    <3> HIDE DEF v
    <3> QED
      BY <1>0, <2>1, <3>1, <3>2, HandlerSteps
  <2>3. CASE ~wk[w].ack
    <3>1. Become(w, Idle)
      BY <1>9, <2>3 DEF ReleaseLock
    <3> QED
      BY <1>0, <2>1, <3>1, HandlerSteps
  <2> QED  BY <2>2, <2>3
<1> QED
  BY <1>1, <1>2, <1>3, <1>4, <1>5, <1>6, <1>7, <1>8, <1>9

(***************************************************************************)
(* The two commits of process_delivery: whatever they write into the row,  *)
(* the handler is still at work, or the delivery is settled.               *)
(***************************************************************************)
LEMMA CommitSteps ==
    ASSUME TypeOK, OneHandler, AllCarried, NEW w \in Workers, NEW c, c = wk[w].cur,
           Begin(w) \/ Record(w)
    PROVE  OneHandler' /\ AllCarried'
<1>0. /\ wk[w].pc # "idle" /\ wk[w] \in WorkerRecord /\ c \in Deliveries
      /\ row \in [Deliveries -> Row]
  <2>1. wk[w].pc # "idle" /\ row \in [Deliveries -> Row]
    BY DEF At, Begin, Record, TypeOK, TypeDb
  <2> QED  BY <2>1, HandlerAt
<1>1. CASE Begin(w)
  <2>1. UNCHANGED <<pel, stream, req, zset, abandoned, deactivated>>
    BY <1>1 DEF Begin, queues, history
  <2>2. \A d \in Deliveries : d # c => row'[d] = row[d]
    BY <1>0, <1>1 DEF Begin
  <2> DEFINE n == [status |-> "delivering", attempts |-> wk[w].view.attempts + 1]
             v == [wk[w] EXCEPT !.pc = "send", !.view = n]
  <2>3. v.pc = "send" /\ v.slot = wk[w].slot /\ v.cur = c
    BY <1>0 DEF WorkerRecord
  <2>4. Become(w, v)
    BY <1>1 DEF Begin
  <2> HIDE DEF v
  <2> QED
    BY <1>0, <2>1, <2>2, <2>3, <2>4, HandlerSteps DEF Owed, Working, AtWork
<1>2. CASE Record(w)
  <2>1. UNCHANGED <<pel, stream, req, zset, abandoned, deactivated>>
    BY <1>2 DEF Record, queues
  <2>2. /\ row'[c].status = Outcome(w)
        /\ \A d \in Deliveries : d # c => row'[d] = row[d]
    BY <1>0, <1>2 DEF Record, Row
  <2> DEFINE p == IF Outcome(w) = "failed" THEN "schedule" ELSE "refresh"
             v == [wk[w] EXCEPT !.pc = p, !.view = [@ EXCEPT !.status = Outcome(w)]]
  <2>3. Outcome(w) \in {"delivered", "dead", "failed"}
    BY DEF Outcome
  <2>4. v.pc = p /\ v.slot = wk[w].slot /\ v.cur = c
    BY <1>0 DEF WorkerRecord
  <2>5. Become(w, v)
    BY <1>2 DEF Record
  <2>6. p # "idle" /\ (Outcome(w) \notin Settled => p \in AtWork)
    BY <2>3 DEF Settled, AtWork
  <2> HIDE DEF v, p
  <2>7. /\ \A d \in Deliveries : d # c /\ Owed(d)' => Owed(d)
        /\ Owed(c)' => Working(v)
    BY <2>1, <2>2, <2>4, <2>6 DEF Owed, Working
  <2> QED
    BY <1>0, <2>1, <2>4, <2>5, <2>6, <2>7, HandlerSteps
<1> QED  BY <1>1, <1>2

(***************************************************************************)
(* An exception or a crash leaves the entry pending.                       *)
(***************************************************************************)
LEMMA FaultSteps ==
    ASSUME TypeOK, OneHandler, AllCarried, NEW w \in Workers, NEW c, c = wk[w].cur,
           Raises(w) \/ Crash(w)
    PROVE  OneHandler' /\ AllCarried'
<1>0. /\ wk[w].pc # "idle" /\ wk[w] \in WorkerRecord /\ c \in Deliveries
  <2>1. wk[w].pc # "idle"
    BY DEF Raises, Crash
  <2> QED  BY <2>1, HandlerAt
<1>1. UNCHANGED <<pel, stream, req, zset>> /\ \A d \in Deliveries : Owed(d)' <=> Owed(d)
  BY DEF Raises, Crash, db, queues, history, Owed
<1>2. CASE Become(w, Idle)
  BY <1>0, <1>1, <1>2, HandlerSteps
<1>3. CASE Become(w, [wk[w] EXCEPT !.pc = "release", !.ack = FALSE])
  <2> DEFINE v == [wk[w] EXCEPT !.pc = "release", !.ack = FALSE]
  <2>1. v.pc = "release" /\ ~v.ack /\ v.slot = wk[w].slot /\ v.cur = c
    BY <1>0 DEF WorkerRecord
  <2>2. Become(w, v)
    BY <1>3
  <2> HIDE DEF v
  <2> QED
    BY <1>0, <1>1, <2>1, <2>2, HandlerSteps DEF Working
<1> QED
  BY <1>2, <1>3 DEF Raises, Crash

(***************************************************************************)
(* XACK: the handler is through with the delivery, so its entry carried    *)
(* nothing any more.                                                       *)
(***************************************************************************)
LEMMA AckStep ==
    ASSUME TypeOK, OneHandler, AllCarried, NEW w \in Workers, Ack(w)
    PROVE  OneHandler' /\ AllCarried'
<1>0. /\ wk[w].slot \in Slots /\ wk \in [Workers -> WorkerState]
      /\ pel \in [Slots -> Deliveries \cup {None}] /\ wk[w].pc = "ack"
      /\ \A u \in Workers : wk[u].pc # "idle" => wk[u].slot \in Slots
  BY HandlerFacts DEF Ack, At, TypeOK, TypeQueues
<1>1. SUFFICES ASSUME NEW s \in Slots, s = wk[w].slot
               PROVE  OneHandler' /\ AllCarried'
  BY <1>0
<1>2. /\ wk'[w] = Idle /\ \A u \in Workers : u # w => wk'[u] = wk[u]
      /\ \A t \in Slots : t # s => pel'[t] = pel[t]
  BY <1>0, <1>1 DEF Ack, Become
<1>3. Idle.pc = "idle" /\ Idle.slot = None /\ None \notin Slots
  BY IdentityAssumption DEF Idle
<1>4. OneHandler'
  <2>1. \A u \in Workers : wk'[u].pc # "idle" =>
            u # w /\ wk'[u] = wk[u] /\ wk[u].slot \in Slots /\ wk[u].slot # s
    BY <1>0, <1>1, <1>2, <1>3 DEF OneHandler
  <2> QED
    BY <1>2, <2>1 DEF OneHandler
<1>5. ASSUME NEW d \in Deliveries, Owed(d)'
      PROVE  Carried(d)'
  <2>1. Owed(d)
    BY <1>5 DEF Ack, db, history, Owed
  <2>2. CASE Waiting(d)
    BY <2>2 DEF Ack, Waiting, InRequest, Carried
  <2>3. ASSUME NEW t \in Slots, Carries(t, d)
        PROVE  Carried(d)'
    <3>1. t # s
      BY <1>0, <1>1, <2>3 DEF Carries, Working, AtWork
    <3>2. \A u \in Workers : wk'[u].slot = t => wk[u].slot = t /\ wk'[u] = wk[u]
      BY <1>2, <1>3
    <3>3. Carries(t, d)'
      BY <1>2, <2>3, <3>1, <3>2 DEF Carries
    <3> QED  BY <3>3 DEF Carried
  <2> QED
    BY <2>1, <2>2, <2>3 DEF AllCarried, Carried
<1> QED
  BY <1>4, <1>5 DEF AllCarried

(***************************************************************************)
(* A worker takes an entry nobody handles, from the stream or by claiming  *)
(* it from a handler that is gone.                                         *)
(***************************************************************************)
LEMMA TakeSteps ==
    ASSUME TypeOK, OneHandler, AllCarried, NEW w \in Workers, NEW s \in Slots,
           Read(w, s) \/ Reclaim(w, s), Handlers(s) = {}
    PROVE  OneHandler' /\ AllCarried'
<1>0. /\ wk \in [Workers -> WorkerState] /\ stream \in Seq(Deliveries)
      /\ pel \in [Slots -> Deliveries \cup {None}] /\ wk[w].pc = "idle"
      /\ \A u \in Workers : wk[u].slot # s
  BY DEF Read, Reclaim, TypeOK, TypeQueues, Handlers
<1>1. SUFFICES ASSUME NEW c, c = IF Read(w, s) THEN Head(stream) ELSE pel[s]
               PROVE  OneHandler' /\ AllCarried'
  OBVIOUS
<1>2. /\ pel'[s] = c /\ \A t \in Slots : t # s => pel'[t] = pel[t]
  BY <1>0, <1>1 DEF Read, Reclaim, queues
<1>3. /\ wk'[w].pc = "load" /\ wk'[w].slot = s /\ wk'[w].cur = c
      /\ \A u \in Workers : u # w => wk'[u] = wk[u]
  <2>1. Start(w, s, c)
    BY <1>1 DEF Read, Reclaim
  <2> DEFINE v == [Idle EXCEPT !.pc = "load", !.slot = s, !.cur = c]
  <2>2. v.pc = "load" /\ v.slot = s /\ v.cur = c
    BY DEF Idle
  <2>3. Become(w, v)
    BY <2>1 DEF Start
  <2> HIDE DEF v
  <2> QED
    BY <1>0, <2>2, <2>3 DEF Become
<1>4. OneHandler'
  BY <1>0, <1>2, <1>3, HandlerFacts DEF OneHandler
<1>5. ASSUME NEW d \in Deliveries, Owed(d)'
      PROVE  Carried(d)'
  <2>1. Owed(d)
    BY <1>5 DEF Read, Reclaim, db, history, Owed
  <2>2. Carries(s, c)'
    BY <1>0, <1>2, <1>3 DEF Carries, Working, AtWork
  <2>3. CASE d = c
    BY <2>2, <2>3 DEF Carried
  <2>4. CASE d # c /\ Waiting(d)
    <3>1. d \in ToSet(stream) => d \in ToSet(stream')
      BY <1>0, <1>1, <2>4, StreamFacts DEF Read, Reclaim, queues
    <3>2. UNCHANGED <<zset, req>>
      BY DEF Read, Reclaim, queues
    <3> QED  BY <2>4, <3>1, <3>2 DEF Waiting, InRequest, Carried
  <2>5. ASSUME d # c, NEW t \in Slots, Carries(t, d)
        PROVE  Carried(d)'
    <3>1. CASE t = s
      <4>1. pel[s] = d /\ Read(w, s)
        BY <1>1, <2>5, <3>1 DEF Carries
      <4>2. d = None
        BY <4>1 DEF Read
      <4> QED
        BY <4>2, IdentityAssumption
    <3>2. CASE t # s
      <4>1. \A u \in Workers : wk'[u].slot = t => wk[u].slot = t /\ wk'[u] = wk[u]
        BY <1>3, <3>2
      <4>2. Carries(t, d)'
        BY <1>2, <2>5, <3>2, <4>1 DEF Carries
      <4> QED  BY <4>2 DEF Carried
    <3> QED  BY <3>1, <3>2
  <2> QED
    BY <2>1, <2>3, <2>4, <2>5 DEF AllCarried, Carried
<1> QED
  BY <1>4, <1>5 DEF AllCarried

(***************************************************************************)
(* What a request has accepted is in its hands until it has been enqueued  *)
(* or is given up.                                                         *)
(***************************************************************************)
InHand(r, d) == d \in req[r].todo \/ req[r].cur = d

\* Steps of API requests keep the invariant.
LEMMA RequestSteps ==
    ASSUME LossInv, OneHandler, AllCarried, NEW r \in Requests,
           \/ \E ev \in Events : Ingest(r, ev)
           \/ \E e \in Endpoints, chosen \in SUBSET Deliveries, kind \in ReplayKinds :
                 ReplaySelect(r, e, chosen, kind)
           \/ Serve(r) \/ RequestDies(r)
    PROVE  OneHandler' /\ AllCarried'
<1>0. /\ req \in [Requests -> RequestState] /\ req[r] \in RequestRecord
      /\ stream \in Seq(Deliveries) /\ zset \in SUBSET Deliveries
      /\ row \in [Deliveries -> Row] /\ None \notin Deliveries
  BY IdentityAssumption DEF LossInv, TypeOK, TypeQueues, TypeDb, RequestState
<1>1. UNCHANGED <<wk, pel, deactivated>> /\ \A k \in Requests : k # r => req'[k] = req[k]
  BY <1>0 DEF Ingest, ReplaySelect, Serve, RequestDies, ReplayCommit, EnqueueNext,
              ClearRetry, EnqueueOrdered, EnqueueDelivery, queues, history
<1>2. ASSUME \A d \in Deliveries : Owed(d)' => Owed(d) \/ InHand(r, d)',
             \A d \in Deliveries : d \in ToSet(stream) => d \in ToSet(stream'),
             \A d \in Deliveries : d \in zset => d \in zset' \/ InHand(r, d)',
             \A d \in Deliveries : InHand(r, d) /\ Owed(d)' =>
                 InHand(r, d)' \/ d \in ToSet(stream')
      PROVE  OneHandler' /\ AllCarried'
  <2>1. \A d \in Deliveries : InHand(r, d)' => Waiting(d)'
    BY DEF InHand, Waiting, InRequest
  <2>2. \A d \in Deliveries : Owed(d)' => Owed(d) \/ Waiting(d)'
    BY <1>2, <2>1
  <2>3. ASSUME NEW d \in Deliveries, Owed(d)', Waiting(d)
        PROVE  Waiting(d)'
    <3>1. CASE d \in ToSet(stream) \/ d \in zset \/ InHand(r, d)
      BY <1>2, <2>1, <2>3, <3>1 DEF Waiting
    <3>2. ASSUME NEW k \in Requests, k # r, InHand(k, d)
          PROVE  Waiting(d)'
      BY <1>1, <3>2 DEF InHand, Waiting, InRequest
    <3> QED  BY <2>3, <3>1, <3>2 DEF Waiting, InRequest, InHand
  <2> QED
    BY <1>1, <2>2, <2>3, Elsewhere
<1>3. ASSUME req[r].pc = "idle", NEW d \in Deliveries
      PROVE  ~InHand(r, d)
  BY <1>0, <1>3 DEF LossInv, IdleRequests, RequestState, InHand
<1>4. ASSUME NEW ev \in Events, Ingest(r, ev)
      PROVE  OneHandler' /\ AllCarried'
  <2> DEFINE fanout == {d \in Deliveries : /\ EventOf[d] = ev
                                           /\ epStatus[EndpointOf[d]] = "active"}
  <2>1. req'[r].todo = fanout /\ UNCHANGED <<stream, zset, abandoned>>
    BY <1>0, <1>4 DEF Ingest, queues, history
  <2>2. \A d \in Deliveries : d \notin fanout => row'[d] = row[d]
    BY <1>4 DEF Ingest
  <2>3. \A d \in Deliveries : Owed(d)' => Owed(d) \/ InHand(r, d)'
    BY <1>1, <2>1, <2>2 DEF Owed, InHand
  <2>4. \A d \in Deliveries : ~InHand(r, d)
    BY <1>3, <1>4 DEF Ingest
  <2> QED
    BY <1>2, <2>1, <2>3, <2>4
<1>5. ASSUME NEW e \in Endpoints, NEW chosen \in SUBSET Deliveries,
             NEW kind \in ReplayKinds, ReplaySelect(r, e, chosen, kind)
      PROVE  OneHandler' /\ AllCarried'
  <2>1. UNCHANGED <<stream, zset, row, abandoned, deactivated>>
    BY <1>5 DEF ReplaySelect, queues, history, db
  <2>2. \A d \in Deliveries : ~InHand(r, d)
    BY <1>3, <1>5 DEF ReplaySelect
  <2> QED
    BY <1>2, <2>1, <2>2 DEF Owed
<1>6. CASE ReplayCommit(r)
  <2>1. /\ UNCHANGED <<stream, zset, abandoned>>
        /\ req'[r].todo = req[r].todo /\ req'[r].cur = req[r].cur
    BY <1>0, <1>6 DEF ReplayCommit, queues, history, RequestRecord
  <2>2. \A d \in Deliveries : d \notin req[r].todo => row'[d] = row[d]
    BY <1>6 DEF ReplayCommit
  <2>3. \A d \in Deliveries : Owed(d)' => Owed(d) \/ InHand(r, d)'
    BY <1>1, <2>1, <2>2 DEF Owed, InHand
  <2> QED
    BY <1>2, <2>1, <2>3 DEF InHand
<1>7. CASE EnqueueNext(r)
  <2>1. UNCHANGED <<stream, zset, row, abandoned, deactivated>>
    BY <1>7 DEF EnqueueNext, queues, history, db
  <2>2. \A d \in Deliveries : InHand(r, d) => InHand(r, d)'
    <3>1. CASE req[r].todo = {} /\ req' = [req EXCEPT ![r] = NoRequest]
      BY <1>0, <1>7, <3>1 DEF EnqueueNext, InHand, RequestState
    <3>2. ASSUME NEW c \in req[r].todo,
                 req' = [req EXCEPT ![r].pc = FirstStep(req[r].kind),
                                    ![r].cur = c, ![r].todo = @ \ {c}]
          PROVE  \A d \in Deliveries : InHand(r, d) => InHand(r, d)'
      <4>1. req'[r].cur = c /\ req'[r].todo = req[r].todo \ {c}
        BY <1>0, <3>2 DEF RequestRecord
      <4>2. req[r].cur \notin Deliveries
        BY <1>0, <1>7 DEF EnqueueNext, RequestState
      <4> QED  BY <4>1, <4>2 DEF InHand
    <3> QED  BY <1>7, <3>1, <3>2 DEF EnqueueNext
  <2> QED
    BY <1>2, <2>1, <2>2 DEF Owed
<1>8. CASE ClearRetry(r) \/ EnqueueOrdered(r)
  <2>1. /\ UNCHANGED <<stream, row, abandoned, deactivated>>
        /\ zset' = zset \/ zset' = zset \ {req[r].cur}
        /\ req'[r].todo = req[r].todo /\ req'[r].cur = req[r].cur
    BY <1>0, <1>8 DEF ClearRetry, EnqueueOrdered, queues, history, db, RequestRecord
  <2> QED
    BY <1>2, <2>1 DEF Owed, InHand
<1>9. CASE EnqueueDelivery(r)
  <2>1. /\ UNCHANGED <<zset, row, abandoned, deactivated>>
        /\ req'[r].todo = req[r].todo
    BY <1>0, <1>9 DEF EnqueueDelivery, history, db, RequestRecord
  <2>2. req[r].cur \in Deliveries
    BY <1>0, <1>9 DEF EnqueueDelivery, RequestState
  <2>3. ToSet(stream') = ToSet(stream) \cup {req[r].cur}
    BY <1>0, <1>9, <2>2, StreamFacts DEF EnqueueDelivery
  <2> QED
    BY <1>2, <2>1, <2>3 DEF Owed, InHand
<1>10. CASE RequestDies(r)
  <2>1. /\ UNCHANGED <<stream, zset, row, deactivated>>
        /\ abandoned' = abandoned \cup req[r].todo \cup ({req[r].cur} \ {None})
    BY <1>10 DEF RequestDies, queues, db
  <2>2. \A d \in Deliveries : InHand(r, d) => d \in abandoned'
    BY <1>0, <2>1 DEF InHand
  <2> QED
    BY <1>2, <2>1, <2>2 DEF Owed
<1> QED
  BY <1>4, <1>5, <1>6, <1>7, <1>8, <1>9, <1>10 DEF Serve

-----------------------------------------------------------------------------
\* Steals are only ever counted up.
LEMMA StealsOnlyGrow ==
    ASSUME TypeOK, [Next]_vars, spent'.steals = 0
    PROVE  /\ spent.steals = 0
           /\ \A w \in Workers, s \in Slots : Reclaim(w, s) => Handlers(s) = {}
<1>0. spent \in [faults : Nat, expiries : Nat, steals : Nat, lost : Nat,
                 replays : Nat, patches : Nat]
  BY DEF TypeOK, TypeHistory
<1>1. ASSUME NEW w \in Workers, NEW s \in Slots, Reclaim(w, s)
      PROVE  Handlers(s) = {} /\ spent.steals = 0
  BY <1>0, <1>1 DEF Reclaim
<1>2. ASSUME \/ \E r \in Requests, e \in Endpoints, chosen \in SUBSET Deliveries,
                  kind \in ReplayKinds : ReplaySelect(r, e, chosen, kind)
             \/ \E r \in Requests : RequestDies(r)
             \/ \E e \in Endpoints, s \in {"active", "paused", "disabled"} :
                   PatchEndpoint(e, s)
             \/ \E w \in Workers : AutoDisable(w) \/ Raises(w) \/ Crash(w)
             \/ \E e \in Endpoints : ExpireLock(e)
      PROVE  spent.steals = 0
  <2>1. \/ spent' = [spent EXCEPT !.replays = @ + 1]
        \/ spent' = [spent EXCEPT !.lost = @ + 1]
        \/ spent' = [spent EXCEPT !.patches = @ + 1]
        \/ spent' = [spent EXCEPT !.faults = @ + 1]
        \/ spent' = [spent EXCEPT !.expiries = @ + 1]
        \/ spent' = spent
    BY <1>2 DEF ReplaySelect, RequestDies, PatchEndpoint, AutoDisable, Raises, Crash,
                ExpireLock
  <2> QED
    BY <1>0, <2>1
<1>3. ASSUME UNCHANGED spent PROVE spent.steals = 0
  BY <1>3
<1>4. spent.steals = 0
  BY <1>1, <1>2, <1>3
  DEF Next, vars, Serve, Ingest, ReplayCommit, EnqueueNext, ClearRetry, EnqueueOrdered,
      EnqueueDelivery, MoveDue, Read, Handle, Load, AcquireLock, PeekHead, YieldLock,
      Defer, PassGates, FailGates, Begin, Send, Record, Schedule, Refresh, PopHead,
      ReleaseLock, Ack
<1>5. \A w \in Workers, s \in Slots : Reclaim(w, s) => Handlers(s) = {}
  BY <1>1
<1> QED
  BY <1>4, <1>5

\* Every step keeps the invariant.
LEMMA LossStep ==
    ASSUME LossInv, [Next]_vars
    PROVE  LossInv'
<1>1. TypeOK' /\ IdleRequests' /\ ActiveKnown'
  BY DbStep, QueueStep, FifoStep, HistoryStep, WorkerStep, RequestStep,
     RequestsStep, ActiveStep DEF LossInv, TypeOK
<1>2. SUFFICES ASSUME spent'.steals = 0
               PROVE  OneHandler' /\ AllCarried'
  BY <1>1 DEF LossInv
<1>3. /\ TypeOK /\ OneHandler /\ AllCarried
      /\ \A w \in Workers, s \in Slots : Reclaim(w, s) => Handlers(s) = {}
  BY <1>2, StealsOnlyGrow DEF LossInv
<1>4. ASSUME NEW r \in Requests,
             \/ \E ev \in Events : Ingest(r, ev)
             \/ \E e \in Endpoints, chosen \in SUBSET Deliveries, kind \in ReplayKinds :
                   ReplaySelect(r, e, chosen, kind)
             \/ Serve(r) \/ RequestDies(r)
      PROVE  OneHandler' /\ AllCarried'
  BY <1>3, <1>4, RequestSteps
<1>5. ASSUME NEW e \in Endpoints,
             ExpireLock(e) \/ \E s \in {"active", "paused", "disabled"} : PatchEndpoint(e, s)
      PROVE  OneHandler' /\ AllCarried'
  <2>1. UNCHANGED <<wk, pel, stream, zset, req, row, abandoned>>
    BY <1>5 DEF ExpireLock, PatchEndpoint, queues, db, history
  <2>2. deactivated \subseteq deactivated'
    BY <1>5 DEF ExpireLock, PatchEndpoint, history
  <2> QED
    BY <1>3, <2>1, <2>2, Elsewhere DEF Owed, Waiting, InRequest
<1>6. ASSUME NEW d \in Deliveries, MoveDue(d)
      PROVE  OneHandler' /\ AllCarried'
  <2>1. /\ UNCHANGED <<wk, pel, req, row, abandoned, deactivated>>
        /\ zset' = zset \ {d}
    BY <1>6 DEF MoveDue, db, history
  <2>2. ToSet(stream') = ToSet(stream) \cup {d}
    BY <1>3, <1>6, StreamFacts DEF MoveDue, TypeOK, TypeQueues
  <2> QED
    BY <1>3, <2>1, <2>2, Elsewhere DEF Owed, Waiting, InRequest
<1>7. ASSUME NEW w \in Workers, NEW s \in Slots, Read(w, s) \/ Reclaim(w, s)
      PROVE  OneHandler' /\ AllCarried'
  BY <1>3, <1>7, TakeSteps DEF Read
<1>8. ASSUME NEW w \in Workers, Handle(w) \/ Raises(w) \/ Crash(w)
      PROVE  OneHandler' /\ AllCarried'
  BY <1>3, <1>8, QuietSteps, CommitSteps, FaultSteps, AckStep DEF Handle
<1>9. CASE UNCHANGED vars
  BY <1>3, <1>9, Elsewhere DEF vars, Owed, Waiting, InRequest
<1> QED
  BY <1>4, <1>5, <1>6, <1>7, <1>8, <1>9 DEF Next

(***************************************************************************)
(* NoLostDeliveryCorrect: at-least-once. As long as no entry is stolen     *)
(* from a live handler, a delivery that was accepted, on an endpoint that  *)
(* was never deactivated, by a request that lived to enqueue it, is        *)
(* settled or somebody will still act for it (worker.py, handle_message    *)
(* acknowledges last; retry_queue.py; routes/events.py).                   *)
(***************************************************************************)
THEOREM NoLostDeliveryCorrect == Spec => []NoLostDelivery
<1>1. Init => LossInv
  <2>1. Init => TypeOK
    BY IdleType, IdentityAssumption
    DEF Init, TypeOK, TypeDb, TypeQueues, TypeFifo, TypeHistory, NoRow, Row,
        Status, RequestState, RequestRecord, NoRequest, NoneSpent
  <2>2. Init => IdleRequests /\ ActiveKnown
    BY DEF Init, IdleRequests, ActiveKnown, NoRequest
  <2>3. Init => OneHandler /\ AllCarried
    BY DEF Init, OneHandler, AllCarried, Owed, Idle, NoRow
  <2> QED  BY <2>1, <2>2, <2>3 DEF LossInv
<1>2. LossInv /\ [Next]_vars => LossInv'
  BY LossStep
<1>3. LossInv => NoLostDelivery
  BY DEF LossInv, NoLostDelivery, AllCarried, Owed, Carried, Waiting, Carries, Located
<1> QED
  BY <1>1, <1>2, <1>3, PTL DEF Spec

-----------------------------------------------------------------------------
(***************************************************************************)
(* One carrier.  As long as no worker fails, no entry is stolen and no two *)
(* replays have selected the same dead delivery, a delivery is in at most  *)
(* one place that may still lead to an attempt: the stream, the retry set, *)
(* the hands of one worker or the hands of one API request.                *)
(***************************************************************************)
ReplaysApart ==
    \A q, r \in Requests :
        (req[q].pc = "commit" /\ req[r].pc = "commit" /\ q # r)
            => req[q].todo \cap req[r].todo = {}

Calm == spent.faults = 0 /\ spent.steals = 0 /\ ReplaysApart

Holds(w, d) == wk[w].pc \in AtWork /\ wk[w].cur = d
Listed(d)   == d \in zset \/ d \in ToSet(stream)

Alone(d) ==
    /\ d \in ToSet(stream) => d \notin zset
    /\ \A v, w \in Workers : Holds(v, d) /\ Holds(w, d) => v = w
    /\ \A q, r \in Requests : InHand(q, d) /\ InHand(r, d) => q = r
    /\ \A w \in Workers : Holds(w, d) => ~Listed(d)
    /\ \A r \in Requests : InHand(r, d) => ~Listed(d)
    /\ \A r \in Requests, w \in Workers : ~(InHand(r, d) /\ Holds(w, d))

\* Where an attempt may begin, and where one is out.
Open   == {"pending", "failed"}
Flying == {"send", "record"}

\* Whoever carries a delivery knows what its row says.
Expected(d) ==
    /\ Listed(d) => row[d].status \in Open
    /\ \A r \in Requests : InHand(r, d) =>
          IF req[r].pc = "commit" THEN row[d].status = "dead"
                                  ELSE row[d].status \in Open
    /\ \A w \in Workers : Holds(w, d) =>
          /\ IF wk[w].pc \in Flying THEN row[d].status = "delivering"
                                    ELSE row[d].status \in Open
          /\ wk[w].pc \notin {"load", "schedule"} => wk[w].view = row[d]
    /\ EventOf[d] \notin ingested => row[d].status = "absent"

\* The attempts of the row, those of the audit trail and the budget.
Counted(d) ==
    /\ row[d].status = "absent" => row[d].attempts = 0
    /\ row[d].status = "delivering" => rows[d] + 1 = row[d].attempts
    /\ row[d].status # "delivering" => rows[d] = row[d].attempts
    /\ row[d].status \in Open => row[d].attempts < MAX_ATTEMPTS
    /\ row[d].attempts <= MAX_ATTEMPTS

Fine(d) == Alone(d) /\ Expected(d) /\ Counted(d)

\* The stream has no entry twice, and every entry that was read has a handler
\* that will acknowledge it.
Once    == \A i, j \in 1..Len(stream) : stream[i] = stream[j] => i = j
Handled ==
    /\ \A s \in Slots : pel[s] # None => \E w \in Workers : wk[w].slot = s
    /\ \A w \in Workers : wk[w].ack

CalmInv == Handled /\ Once /\ Apart /\ \A d \in Deliveries : Fine(d)

-----------------------------------------------------------------------------
\* A step that brings a delivery nowhere new and leaves its row alone.
LEMMA Calmer ==
    ASSUME NEW d \in Deliveries, Fine(d), row'[d] = row[d], rows'[d] = rows[d],
           ingested \subseteq ingested',
           d \in zset' => d \in zset,
           d \in ToSet(stream') => d \in ToSet(stream),
           \A w \in Workers : Holds(w, d)' =>
              \/ wk'[w] = wk[w]
              \/ /\ Holds(w, d) /\ wk'[w].view = row[d]
                 /\ wk'[w].pc \in Flying <=> wk[w].pc \in Flying,
           \A r \in Requests : InHand(r, d)' =>
              /\ InHand(r, d)
              /\ req'[r].pc = "commit" <=> req[r].pc = "commit"
    PROVE  Fine(d)'
<1>1. Listed(d)' => Listed(d)
  BY DEF Listed
<1>2. \A w \in Workers : Holds(w, d)' => Holds(w, d)
  BY DEF Holds
<1>3. Alone(d)'
  BY <1>1, <1>2 DEF Fine, Alone
<1>4. Counted(d)'
  BY DEF Fine, Counted
<1>5. Expected(d)'
  <2>1. ASSUME NEW r \in Requests, InHand(r, d)'
        PROVE  IF req'[r].pc = "commit" THEN row[d].status = "dead"
                                        ELSE row[d].status \in Open
    BY <2>1 DEF Fine, Expected
  <2>2. ASSUME NEW w \in Workers, Holds(w, d)'
        PROVE  /\ IF wk'[w].pc \in Flying THEN row[d].status = "delivering"
                                          ELSE row[d].status \in Open
               /\ wk'[w].pc \notin {"load", "schedule"} => wk'[w].view = row[d]
    BY <1>2, <2>2 DEF Fine, Expected
  <2> QED
    BY <1>1, <2>1, <2>2 DEF Fine, Expected
<1> QED
  BY <1>3, <1>4, <1>5 DEF Fine

-----------------------------------------------------------------------------
\* A handler goes on with its delivery, or has nothing to do with it any more.
LEMMA Onward ==
    ASSUME TypeOK, NEW d \in Deliveries, Fine(d),
           NEW w \in Workers, NEW v, Become(w, v), NEW c, c = wk[w].cur,
           row'[d] = row[d], rows'[d] = rows[d],
           UNCHANGED <<ingested, zset, stream, req>>,
           (v.pc \in AtWork /\ v.cur = d) =>
              /\ wk[w].pc \in AtWork /\ v.cur = c /\ v.view = row[d]
              /\ v.pc \in Flying <=> wk[w].pc \in Flying
    PROVE  Fine(d)'
<1>1. wk'[w] = v /\ \A u \in Workers : u # w => wk'[u] = wk[u]
  BY DEF Become, TypeOK
<1>2. ASSUME NEW u \in Workers, Holds(u, d)'
      PROVE  \/ wk'[u] = wk[u]
             \/ /\ Holds(u, d) /\ wk'[u].view = row[d]
                /\ wk'[u].pc \in Flying <=> wk[u].pc \in Flying
  BY <1>1, <1>2 DEF Holds
<1>3. \A r \in Requests : InHand(r, d)' =>
          InHand(r, d) /\ (req'[r].pc = "commit" <=> req[r].pc = "commit")
  BY DEF InHand
<1> QED
  BY <1>2, <1>3, Calmer

(***************************************************************************)
(* The steps of a handler that write no row and enqueue nothing.           *)
(***************************************************************************)
LEMMA HandlerCalm ==
    ASSUME TypeOK, NEW d \in Deliveries, Fine(d), NEW w \in Workers,
           \/ Load(w) \/ AcquireLock(w) \/ PeekHead(w) \/ YieldLock(w)
           \/ PassGates(w) \/ FailGates(w) \/ AutoDisable(w)
           \/ (\E result \in Results : Send(w, result))
           \/ Refresh(w) \/ PopHead(w) \/ ReleaseLock(w) \/ Ack(w)
    PROVE  Fine(d)'
<1> DEFINE c == wk[w].cur
<1>0. wk[w] \in WorkerRecord
  BY HandlerFacts DEF TypeOK, Load, AcquireLock, PeekHead, YieldLock, PassGates,
     FailGates, AutoDisable, Send, Refresh, PopHead, ReleaseLock, Ack, At
<1>1. UNCHANGED <<row, rows, ingested, zset, stream, req>>
  BY DEF Load, AcquireLock, PeekHead, YieldLock, PassGates, FailGates, AutoDisable,
         Send, Refresh, PopHead, ReleaseLock, Ack, db, queues
<1>2. (Holds(w, d) /\ wk[w].pc \notin {"load", "schedule"}) => wk[w].view = row[d]
  BY DEF Fine, Expected
<1>3. ASSUME NEW v, Become(w, v),
             (v.pc \in AtWork /\ v.cur = d) =>
                /\ wk[w].pc \in AtWork /\ v.cur = c /\ v.view = row[d]
                /\ v.pc \in Flying <=> wk[w].pc \in Flying
      PROVE  Fine(d)'
  BY <1>1, <1>3, Onward
<1>4. ASSUME NEW p \in Busy, Goto(w, p),
             p \in AtWork => /\ wk[w].pc \in AtWork \ {"load", "schedule"}
                             /\ p \in Flying <=> wk[w].pc \in Flying
      PROVE  Fine(d)'
  <2> DEFINE v == [wk[w] EXCEPT !.pc = p]
  <2>1. v.pc = p /\ v.cur = c /\ v.view = wk[w].view /\ Become(w, v)
    BY <1>0, <1>4 DEF WorkerRecord, Goto
  <2> HIDE DEF v
  <2> QED  BY <1>2, <1>3, <1>4, <2>1 DEF Holds
<1>5. CASE Load(w)
  <2> DEFINE p == IF row[c].status \in Settled \/ epStatus[EndpointOf[c]] # "active"
                  THEN "ack" ELSE IF IsOrdered(c) THEN "lock" ELSE "gates"
             v == [wk[w] EXCEPT !.pc = p, !.view = row[c]]
  <2>1. v.pc = p /\ v.cur = c /\ v.view = row[c] /\ Become(w, v) /\ wk[w].pc = "load"
    BY <1>0, <1>5 DEF WorkerRecord, Load, At
  <2>2. p \notin Flying
    BY DEF Flying
  <2>3. wk[w].pc \in AtWork /\ wk[w].pc \notin Flying
    BY <2>1 DEF AtWork, Flying
  <2> HIDE DEF v, p
  <2> QED  BY <1>3, <2>1, <2>2, <2>3
<1>6. CASE AcquireLock(w)
  <2>0. wk[w].pc = "lock"
    BY <1>6 DEF AcquireLock, At
  <2>1. CASE Goto(w, "defer")
    BY <1>4, <2>0, <2>1 DEF Busy, AtWork, Flying
  <2>2. CASE Become(w, [wk[w] EXCEPT !.pc = "peek", !.token = TRUE])
    <3> DEFINE v == [wk[w] EXCEPT !.pc = "peek", !.token = TRUE]
    <3>1. v.pc = "peek" /\ v.cur = c /\ v.view = wk[w].view /\ Become(w, v)
      BY <1>0, <2>2 DEF WorkerRecord
    <3> HIDE DEF v
    <3> QED  BY <1>2, <1>3, <2>0, <3>1 DEF AtWork, Flying, Holds
  <2> QED  BY <1>6, <2>1, <2>2 DEF AcquireLock
<1>7. CASE PeekHead(w)
  <2> DEFINE q == queue[EndpointOf[c]]
             p == IF q # <<>> /\ Head(q) # c THEN "yield" ELSE "gates"
  <2>1. Goto(w, p) /\ wk[w].pc = "peek" /\ p \in {"yield", "gates"}
    BY <1>7 DEF PeekHead, At
  <2> HIDE DEF p
  <2> QED  BY <1>4, <2>1 DEF Busy, AtWork, Flying
<1>8. CASE YieldLock(w)
  <2> DEFINE v == [wk[w] EXCEPT !.pc = "defer", !.token = FALSE]
  <2>1. /\ v.pc = "defer" /\ v.cur = c /\ v.view = wk[w].view /\ Become(w, v)
        /\ wk[w].pc = "yield"
    BY <1>0, <1>8 DEF WorkerRecord, YieldLock, At
  <2> HIDE DEF v
  <2> QED  BY <1>2, <1>3, <2>1 DEF AtWork, Flying, Holds
<1>9. CASE PassGates(w) \/ FailGates(w) \/ AutoDisable(w)
  <2>1. wk[w].pc = "gates" /\ (Goto(w, "begin") \/ Goto(w, "defer"))
    BY <1>9 DEF PassGates, FailGates, AutoDisable, At
  <2> QED  BY <1>4, <2>1 DEF Busy, AtWork, Flying
<1>10. ASSUME NEW result \in Results, Send(w, result) PROVE Fine(d)'
  <2> DEFINE v == [wk[w] EXCEPT !.pc = "record", !.result = result]
  <2>1. /\ v.pc = "record" /\ v.cur = c /\ v.view = wk[w].view /\ Become(w, v)
        /\ wk[w].pc = "send"
    BY <1>0, <1>10 DEF WorkerRecord, Send, At
  <2> HIDE DEF v
  <2> QED  BY <1>2, <1>3, <2>1 DEF AtWork, Flying, Holds
<1>11. CASE Refresh(w)
  <2> DEFINE p == IF IsOrdered(c) /\ row[c].status \in Settled THEN "pop" ELSE Leave(w)
             v == [wk[w] EXCEPT !.pc = p, !.view = row[c]]
  <2>1. v.pc = p /\ Become(w, v) /\ p \notin AtWork
    BY <1>0, <1>11 DEF WorkerRecord, Refresh, Leave, AtWork
  <2> HIDE DEF v, p
  <2> QED  BY <1>3, <2>1
<1>12. CASE PopHead(w)
  <2>1. Goto(w, Leave(w)) /\ Leave(w) \in {"release", "ack"}
    BY <1>12 DEF PopHead, Leave
  <2> QED  BY <1>4, <2>1 DEF Busy, AtWork
<1>13. CASE ReleaseLock(w)
  <2> DEFINE v == IF wk[w].ack THEN [wk[w] EXCEPT !.pc = "ack", !.token = FALSE] ELSE Idle
  <2>1. v.pc \notin AtWork /\ Become(w, v)
    BY <1>0, <1>13 DEF WorkerRecord, ReleaseLock, AtWork, Idle
  <2> HIDE DEF v
  <2> QED  BY <1>3, <2>1
<1>14. CASE Ack(w)
  <2>1. Become(w, Idle) /\ Idle.pc \notin AtWork
    BY <1>14 DEF Ack, Idle, AtWork
  <2> QED  BY <1>3, <2>1
<1> QED
  BY <1>5, <1>6, <1>7, <1>8, <1>9, <1>10, <1>11, <1>12, <1>13, <1>14

(***************************************************************************)
(* ZADD: the handler's delivery goes from its hands to the retry set.      *)
(***************************************************************************)
LEMMA ShelveCalm ==
    ASSUME TypeOK, NEW d \in Deliveries, Fine(d), NEW w \in Workers,
           Defer(w) \/ Schedule(w)
    PROVE  Fine(d)'
<1> DEFINE c == wk[w].cur
           p == IF Defer(w) THEN Leave(w) ELSE "refresh"
<1>0. /\ wk \in [Workers -> WorkerState] /\ wk[w] \in WorkerRecord
      /\ wk[w].pc \in AtWork \ Flying
  BY HandlerFacts DEF TypeOK, Defer, Schedule, At, AtWork, Flying
<1>1. /\ UNCHANGED <<row, rows, ingested, stream, req>>
      /\ zset' = zset \cup {c}
  BY DEF Defer, Schedule, db
<1>2. /\ wk'[w].pc \notin AtWork
      /\ \A u \in Workers : u # w => wk'[u] = wk[u]
  <2>1. wk' = [wk EXCEPT ![w] = [wk[w] EXCEPT !.pc = p]]
    BY DEF Defer, Schedule, Goto, Become, At
  <2>2. p \notin AtWork
    BY DEF Leave, AtWork
  <2> HIDE DEF p
  <2> QED  BY <1>0, <2>1, <2>2 DEF WorkerRecord
<1>3. \A u \in Workers : Holds(u, d)' => u # w /\ wk'[u] = wk[u] /\ Holds(u, d)
  BY <1>2 DEF Holds
<1>4. \A r \in Requests : /\ InHand(r, d)' <=> InHand(r, d)
                          /\ req'[r] = req[r]
  BY <1>1 DEF InHand
<1>5. CASE d # c
  BY <1>1, <1>3, <1>4, <1>5, Calmer
<1>6. CASE d = c
  <2>1. Holds(w, d) /\ wk[w].pc \notin Flying
    BY <1>0, <1>6 DEF Holds
  <2>2. ~Listed(d) /\ (\A r \in Requests : ~InHand(r, d)) /\ row[d].status \in Open
    BY <2>1 DEF Fine, Alone, Expected
  <2>3. \A u \in Workers : ~Holds(u, d)'
    BY <1>3, <2>1 DEF Fine, Alone
  <2>4. d \notin ToSet(stream')
    BY <1>1, <2>2 DEF Listed
  <2>5. Alone(d)'
    BY <1>4, <2>2, <2>3, <2>4 DEF Alone
  <2>6. Expected(d)' /\ Counted(d)'
    BY <1>1, <1>4, <2>2, <2>3 DEF Fine, Expected, Counted
  <2> QED  BY <2>5, <2>6 DEF Fine
<1> QED  BY <1>5, <1>6

(***************************************************************************)
(* The first commit of process_delivery: an attempt within the budget.     *)
(***************************************************************************)
LEMMA BeginFacts ==
    ASSUME TypeOK, NEW w \in Workers, Begin(w), Fine(wk[w].cur)
    PROVE  LET c == wk[w].cur
           IN  /\ c \in Deliveries /\ wk[w].view = row[c] /\ row[c].status \in Open
               /\ row[c].attempts < MAX_ATTEMPTS
               /\ row' = [row EXCEPT ![c] = [status |-> "delivering",
                                             attempts |-> row[c].attempts + 1]]
<1> DEFINE c == wk[w].cur
<1>0. wk[w].pc = "begin" /\ c \in Deliveries /\ Holds(w, c)
  BY HandlerFacts DEF TypeOK, Begin, At, Holds, AtWork
<1>1. wk[w].view = row[c] /\ row[c].status \in Open /\ row[c].attempts < MAX_ATTEMPTS
  BY <1>0 DEF Fine, Expected, Flying, Counted
<1>2. wk[w].view.status # "delivering"
  BY <1>1 DEF Open
<1> QED
  BY <1>0, <1>1, <1>2 DEF Begin

\* The row, the view and the audit trail agree while the POST is out.
LEMMA BeginCalm ==
    ASSUME TypeOK, NEW d \in Deliveries, Fine(d), NEW w \in Workers, Begin(w),
           Fine(wk[w].cur)
    PROVE  Fine(d)'
<1> DEFINE c == wk[w].cur
           n == [status |-> "delivering", attempts |-> row[c].attempts + 1]
           v == [wk[w] EXCEPT !.pc = "send", !.view = n]
<1>0. /\ c \in Deliveries /\ wk[w].view = row[c] /\ row[c].status \in Open
      /\ row[c].attempts < MAX_ATTEMPTS
      /\ row' = [row EXCEPT ![c] = n]
  BY BeginFacts
<1>1. /\ row \in [Deliveries -> Row] /\ wk \in [Workers -> WorkerState]
      /\ rows \in [Deliveries -> Nat]
      /\ wk[w] \in WorkerRecord /\ wk[w].pc = "begin"
  BY HandlerFacts DEF TypeOK, TypeDb, Begin, At
<1>2. /\ v.pc = "send" /\ v.cur = c /\ v.view = n /\ Become(w, v)
      /\ UNCHANGED <<rows, ingested, zset, stream, req>>
  BY <1>0, <1>1 DEF Begin, WorkerRecord, queues
<1>3. n.status = "delivering" /\ n.attempts = row[c].attempts + 1
  OBVIOUS
<1> HIDE DEF v, n
<1>4. CASE d # c
  <2>1. row'[d] = row[d]
    BY <1>0, <1>4
  <2> QED  BY <1>2, <1>4, <2>1, Onward
<1>5. CASE d = c
  <2>1. /\ wk'[w] = v /\ \A u \in Workers : u # w => wk'[u] = wk[u]
        /\ row'[d] = n
    BY <1>0, <1>1, <1>2, <1>5 DEF Become
  <2>2. Holds(w, d)
    BY <1>1, <1>5 DEF Holds, AtWork
  <2>3. /\ ~Listed(d) /\ (\A r \in Requests : ~InHand(r, d))
        /\ \A u \in Workers : Holds(u, d) => u = w
    BY <2>2 DEF Fine, Alone
  <2>4. /\ ~Listed(d)' /\ (\A r \in Requests : ~InHand(r, d)')
        /\ \A u \in Workers : Holds(u, d)' => u = w
    BY <1>2, <2>1, <2>3 DEF Listed, InHand, Holds
  <2>5. Alone(d)'
    BY <2>4 DEF Alone, Listed
  <2>6. Expected(d)'
    <3>1. EventOf[d] \in ingested
      BY <1>0, <1>5 DEF Fine, Expected, Open
    <3> QED  BY <1>2, <1>3, <2>1, <2>4, <3>1 DEF Expected, Flying
  <2>7. Counted(d)'
    <3>1. row[d].status # "delivering"
      BY <1>0, <1>5 DEF Open
    <3>2. rows[d] = row[d].attempts /\ rows'[d] = rows[d]
      BY <1>2, <3>1 DEF Fine, Counted
    <3>3. row[d].attempts \in Nat /\ MAX_ATTEMPTS \in Nat
      BY <1>1, PolicyAssumption DEF Row
    <3> QED  BY <1>0, <1>3, <1>5, <2>1, <3>2, <3>3 DEF Counted, Open
  <2> QED  BY <2>5, <2>6, <2>7 DEF Fine
<1> QED  BY <1>4, <1>5

\* next_delay_seconds gives up once the attempts are spent.
LEMMA OutcomeFacts ==
    ASSUME TypeOK, NEW w \in Workers
    PROVE  /\ Outcome(w) \in {"delivered", "dead", "failed"}
           /\ Outcome(w) = "failed" => wk[w].view.attempts < MAX_ATTEMPTS
<1> DEFINE n == wk[w].view.attempts
           r == wk[w].result
<1>0. n \in Nat /\ MAX_ATTEMPTS \in Nat
  BY PolicyAssumption DEF TypeOK, WorkerState, WorkerRecord, Row
<1>1. max_attempts_for(r, MAX_ATTEMPTS) \in Nat /\ max_attempts_for(r, MAX_ATTEMPTS) <= MAX_ATTEMPTS
  BY <1>0, TerminalAssumption DEF max_attempts_for, Smaller
<1>2. n >= MAX_ATTEMPTS => next_delay_seconds(n, r, Header("absent", 0), MAX_ATTEMPTS) = GiveUp
  <2> HIDE DEF n, r
  <2> QED  BY <1>0, <1>1 DEF next_delay_seconds
<1> QED  BY <1>0, <1>2 DEF Outcome

(***************************************************************************)
(* The second commit: it settles the delivery, or leaves it to a retry     *)
(* that is still within the budget, and adds the one missing audit row.    *)
(***************************************************************************)
LEMMA RecordFacts ==
    ASSUME TypeOK, NEW w \in Workers, Record(w), Fine(wk[w].cur)
    PROVE  LET c == wk[w].cur
           IN  /\ c \in Deliveries /\ row[c].status = "delivering"
               /\ Outcome(w) = "failed" => row[c].attempts < MAX_ATTEMPTS
               /\ row' = [row EXCEPT ![c].status = Outcome(w)]
               /\ rows' = [rows EXCEPT ![c] = @ + 1]
<1> DEFINE c == wk[w].cur
<1>0. wk[w].pc = "record" /\ c \in Deliveries /\ Holds(w, c)
  BY HandlerFacts DEF TypeOK, Record, At, Holds, AtWork
<1>1. wk[w].view = row[c] /\ row[c].status = "delivering"
  BY <1>0 DEF Fine, Expected, Flying
<1> QED
  BY <1>0, <1>1, OutcomeFacts DEF Record

\* It leaves nobody behind with an attempt to make, except for its own handler.
LEMMA RecordCalm ==
    ASSUME TypeOK, NEW d \in Deliveries, Fine(d), NEW w \in Workers, Record(w),
           Fine(wk[w].cur)
    PROVE  Fine(d)'
<1> DEFINE c == wk[w].cur
           o == Outcome(w)
           p == IF o = "failed" THEN "schedule" ELSE "refresh"
           n == [wk[w].view EXCEPT !.status = o]
           v == [wk[w] EXCEPT !.pc = p, !.view = n]
<1>0. /\ c \in Deliveries /\ row[c].status = "delivering"
      /\ o \in {"delivered", "dead", "failed"}
      /\ o = "failed" => row[c].attempts < MAX_ATTEMPTS
      /\ row' = [row EXCEPT ![c].status = o]
      /\ rows' = [rows EXCEPT ![c] = @ + 1]
  BY RecordFacts, OutcomeFacts
<1>1. /\ row \in [Deliveries -> Row] /\ wk \in [Workers -> WorkerState]
      /\ rows \in [Deliveries -> Nat]
      /\ wk[w] \in WorkerRecord /\ wk[w].pc = "record"
  BY HandlerFacts DEF TypeOK, TypeDb, Record, At
<1>2. /\ v.pc = p /\ v.cur = c /\ Become(w, v)
      /\ UNCHANGED <<ingested, zset, stream, req>>
  BY <1>1 DEF Record, WorkerRecord, queues
<1>3. /\ p \in AtWork <=> o = "failed"
      /\ p \in {"schedule", "refresh"}
  BY DEF AtWork
<1> HIDE DEF v, n, p, o
<1>4. CASE d # c
  <2>1. row'[d] = row[d] /\ rows'[d] = rows[d]
    BY <1>0, <1>1, <1>4
  <2> QED  BY <1>2, <1>4, <2>1, Onward
<1>5. CASE d = c
  <2>1. /\ wk'[w] = v /\ (\A u \in Workers : u # w => wk'[u] = wk[u])
        /\ row'[d].status = o /\ row'[d].attempts = row[d].attempts
        /\ rows'[d] = rows[d] + 1
    BY <1>0, <1>1, <1>2, <1>5 DEF Become, Row
  <2>2. Holds(w, d)
    BY <1>1, <1>5 DEF Holds, AtWork
  <2>3. /\ ~Listed(d) /\ (\A r \in Requests : ~InHand(r, d))
        /\ \A u \in Workers : Holds(u, d) => u = w
    BY <2>2 DEF Fine, Alone
  <2>4. /\ ~Listed(d)' /\ (\A r \in Requests : ~InHand(r, d)')
        /\ \A u \in Workers : Holds(u, d)' => u = w /\ o = "failed"
    BY <1>2, <1>3, <2>1, <2>3 DEF Listed, InHand, Holds
  <2>5. Alone(d)'
    BY <2>4 DEF Alone, Listed
  <2>6. Expected(d)'
    <3>1. EventOf[d] \in ingested
      BY <1>0, <1>5 DEF Fine, Expected
    <3>2. ASSUME NEW u \in Workers, Holds(u, d)'
          PROVE  wk'[u].pc = "schedule" /\ row'[d].status = "failed"
      BY <1>2, <1>3, <2>1, <2>4, <3>2 DEF AtWork
    <3> QED  BY <1>2, <2>4, <3>1, <3>2 DEF Expected, Flying, Open
  <2>7. Counted(d)'
    <3>1. row[d].attempts \in Nat /\ MAX_ATTEMPTS \in Nat /\ rows[d] \in Nat
      BY <1>1, PolicyAssumption DEF Row
    <3>2. rows[d] + 1 = row[d].attempts /\ row[d].attempts <= MAX_ATTEMPTS
      BY <1>0, <1>5 DEF Fine, Counted
    <3> QED  BY <1>0, <1>5, <2>1, <3>1, <3>2 DEF Counted, Open
  <2> QED  BY <2>5, <2>6, <2>7 DEF Fine
<1> QED  BY <1>4, <1>5

-----------------------------------------------------------------------------
(***************************************************************************)
(* The scheduler and the consumer group hand a delivery on.                *)
(***************************************************************************)
LEMMA MoveDueCalm ==
    ASSUME TypeOK, NEW d \in Deliveries, Fine(d), NEW c \in Deliveries, MoveDue(c)
    PROVE  Fine(d)'
<1>1. /\ UNCHANGED <<row, rows, ingested, req, wk>>
      /\ zset' = zset \ {c} /\ c \in zset
      /\ ToSet(stream') = ToSet(stream) \cup {c}
  BY StreamFacts DEF MoveDue, db, TypeOK, TypeQueues
<1>2. \A u \in Workers : (Holds(u, d)' <=> Holds(u, d)) /\ wk'[u] = wk[u]
  BY <1>1 DEF Holds
<1>3. \A r \in Requests : (InHand(r, d)' <=> InHand(r, d)) /\ req'[r] = req[r]
  BY <1>1 DEF InHand
<1>4. CASE d # c
  BY <1>1, <1>2, <1>3, <1>4, Calmer
<1>5. CASE d = c
  <2>1. Listed(d) /\ Listed(d)' /\ d \notin zset'
    BY <1>1, <1>5 DEF Listed
  <2>2. Alone(d)'
    BY <1>2, <1>3, <2>1 DEF Fine, Alone
  <2>3. Expected(d)' /\ Counted(d)'
    BY <1>1, <1>2, <1>3, <2>1 DEF Fine, Expected, Counted
  <2> QED  BY <2>2, <2>3 DEF Fine
<1> QED  BY <1>4, <1>5

\* No two entries are for the same delivery, so a read leaves none behind.
LEMMA TailFacts ==
    ASSUME TypeOK, Once, stream # <<>>, NEW t, t = Tail(stream)
    PROVE  /\ Head(stream) \in Deliveries
           /\ ToSet(t) = ToSet(stream) \ {Head(stream)}
           /\ Head(stream) \in ToSet(stream)
           /\ \A i, j \in 1..Len(t) : t[i] = t[j] => i = j
<1>0. stream \in Seq(Deliveries)
  BY DEF TypeOK, TypeQueues
<1>1. /\ Len(stream) \in Nat /\ Len(stream) > 0 /\ Head(stream) = stream[1]
      /\ Len(t) = Len(stream) - 1
      /\ \A i \in 1..(Len(stream) - 1) : t[i] = stream[i + 1]
      /\ DOMAIN t = 1..Len(t)
      /\ Head(stream) \in Deliveries
  BY <1>0
<1>2. ToSet(stream) = {Head(stream)} \cup ToSet(t)
  BY <1>0, StreamFacts
<1>3. \A i \in 1..Len(t) : t[i] # Head(stream)
  BY <1>1 DEF Once
<1>4. Head(stream) \notin ToSet(t)
  BY <1>1, <1>3 DEF ToSet
<1>5. \A i, j \in 1..Len(t) : t[i] = t[j] => i = j
  BY <1>1 DEF Once
<1> QED  BY <1>1, <1>2, <1>4, <1>5

\* XREADGROUP: from the stream into the hands of a worker.
LEMMA ReadCalm ==
    ASSUME TypeOK, Once, NEW d \in Deliveries, Fine(d), NEW w \in Workers,
           NEW s \in Slots, Read(w, s)
    PROVE  Fine(d)'
<1> DEFINE c == Head(stream)
           v == [Idle EXCEPT !.pc = "load", !.slot = s, !.cur = c]
<1>1. /\ UNCHANGED <<row, rows, ingested, req, zset>>
      /\ stream # <<>> /\ stream' = Tail(stream)
      /\ wk[w].pc = "idle" /\ wk' = [wk EXCEPT ![w] = v]
  BY DEF Read, db, Start, Become
<1>2. /\ c \in Deliveries /\ c \in ToSet(stream)
      /\ ToSet(stream') = ToSet(stream) \ {c}
  BY <1>1, TailFacts
<1>3. /\ wk'[w].pc = "load" /\ wk'[w].cur = c
      /\ \A u \in Workers : u # w => wk'[u] = wk[u]
  BY <1>1 DEF TypeOK, Idle
<1>4. ~Holds(w, d) /\ \A u \in Workers : Holds(u, d)' /\ u # w => Holds(u, d)
  BY <1>1, <1>3 DEF Holds, AtWork
<1>5. \A r \in Requests : (InHand(r, d)' <=> InHand(r, d)) /\ req'[r] = req[r]
  BY <1>1 DEF InHand
<1> HIDE DEF c
<1>6. CASE d # c
  <2>1. ~Holds(w, d)'
    BY <1>3, <1>6 DEF Holds
  <2>2. \A u \in Workers : Holds(u, d)' => wk'[u] = wk[u]
    BY <1>3, <2>1
  <2> QED  BY <1>1, <1>2, <1>5, <2>2, Calmer
<1>7. CASE d = c
  <2>1. /\ Listed(d) /\ row[d].status \in Open /\ (\A u \in Workers : ~Holds(u, d))
        /\ (\A r \in Requests : ~InHand(r, d)) /\ d \notin zset
    BY <1>2, <1>7 DEF Fine, Alone, Expected, Listed
  <2>2. ~Listed(d)' /\ \A u \in Workers : Holds(u, d)' => u = w
    BY <1>1, <1>2, <1>4, <1>7, <2>1 DEF Listed
  <2>3. Alone(d)'
    BY <1>5, <2>1, <2>2 DEF Alone, Listed
  <2>4. Expected(d)' /\ Counted(d)'
    BY <1>1, <1>3, <1>5, <2>1, <2>2 DEF Fine, Expected, Counted, Flying
  <2> QED  BY <2>3, <2>4 DEF Fine
<1> QED  BY <1>6, <1>7

-----------------------------------------------------------------------------
(***************************************************************************)
(* The steps of a request that bring its deliveries nowhere new.           *)
(***************************************************************************)
LEMMA RequestCalm ==
    ASSUME TypeOK, NEW d \in Deliveries, Fine(d), NEW r \in Requests,
           EnqueueNext(r) \/ ClearRetry(r) \/ EnqueueOrdered(r) \/ RequestDies(r)
    PROVE  Fine(d)'
<1>0. /\ req \in [Requests -> RequestState] /\ req[r] \in RequestRecord
      /\ None \notin Deliveries
  BY IdentityAssumption DEF TypeOK, RequestState
<1>1. /\ UNCHANGED <<row, rows, ingested, stream, wk>> /\ zset' \subseteq zset
      /\ req[r].pc # "commit"
      /\ \A q \in Requests : q # r => req'[q] = req[q]
  BY <1>0 DEF EnqueueNext, ClearRetry, EnqueueOrdered, RequestDies, db, queues
<1>2. req'[r].pc # "commit" /\ (InHand(r, d)' => InHand(r, d))
  <2>1. CASE req' = [req EXCEPT ![r] = NoRequest]
    BY <1>0, <2>1 DEF NoRequest, InHand
  <2>2. ASSUME NEW c \in req[r].todo,
               req' = [req EXCEPT ![r].pc = FirstStep(req[r].kind),
                                  ![r].cur = c, ![r].todo = @ \ {c}]
        PROVE  req'[r].pc # "commit" /\ (InHand(r, d)' => InHand(r, d))
    <3>1. FirstStep(req[r].kind) # "commit"
      BY <1>0 DEF RequestRecord, FirstStep, ReplayKinds
    <3>2. /\ req'[r].pc = FirstStep(req[r].kind) /\ req'[r].cur = c
          /\ req'[r].todo = req[r].todo \ {c}
      BY <1>0, <2>2 DEF RequestRecord
    <3> QED  BY <2>2, <3>1, <3>2 DEF InHand
  <2>3. CASE ClearRetry(r) \/ EnqueueOrdered(r)
    BY <1>0, <2>3 DEF ClearRetry, EnqueueOrdered, InHand, RequestRecord
  <2> QED
    BY <2>1, <2>2, <2>3 DEF EnqueueNext, RequestDies
<1>3. \A q \in Requests : InHand(q, d)' =>
          InHand(q, d) /\ (req'[q].pc = "commit" <=> req[q].pc = "commit")
  BY <1>1, <1>2 DEF InHand
<1>4. \A u \in Workers : Holds(u, d)' => wk'[u] = wk[u]
  BY <1>1
<1> QED
  BY <1>1, <1>3, <1>4, Calmer

(***************************************************************************)
(* XADD: from the hands of the request to the stream.                      *)
(***************************************************************************)
LEMMA EnqueueCalm ==
    ASSUME TypeOK, Apart, NEW d \in Deliveries, Fine(d), NEW r \in Requests,
           EnqueueDelivery(r)
    PROVE  Fine(d)'
<1> DEFINE c == req[r].cur
<1>0. /\ req \in [Requests -> RequestState] /\ req[r] \in RequestRecord
      /\ req[r].pc = "xadd" /\ c \in Deliveries /\ c \notin req[r].todo
      /\ None \notin Deliveries
  BY IdentityAssumption DEF TypeOK, RequestState, EnqueueDelivery, Apart
<1>1. /\ UNCHANGED <<row, rows, ingested, zset, wk>>
      /\ ToSet(stream') = ToSet(stream) \cup {c}
      /\ \A q \in Requests : q # r => req'[q] = req[q]
      /\ req'[r].pc = "next" /\ req'[r].cur = None /\ req'[r].todo = req[r].todo
  BY <1>0, StreamFacts DEF EnqueueDelivery, db, TypeOK, TypeQueues, RequestRecord
<1>2. \A q \in Requests : InHand(q, d)' =>
          /\ InHand(q, d) /\ ~(q = r /\ d = c)
          /\ req'[q].pc = "commit" <=> req[q].pc = "commit"
  BY <1>0, <1>1 DEF InHand
<1>3. \A u \in Workers : (Holds(u, d)' <=> Holds(u, d)) /\ wk'[u] = wk[u]
  BY <1>1 DEF Holds
<1>4. CASE d # c
  BY <1>1, <1>2, <1>3, <1>4, Calmer
<1>5. CASE d = c
  <2>0. InHand(r, d)
    BY <1>5 DEF InHand
  <2>1. /\ ~Listed(d) /\ row[d].status \in Open /\ (\A u \in Workers : ~Holds(u, d))
        /\ \A q \in Requests : InHand(q, d) => q = r
    BY <1>0, <2>0 DEF Fine, Alone, Expected
  <2>2. d \notin zset' /\ \A q \in Requests : ~InHand(q, d)'
    BY <1>1, <1>2, <1>5, <2>1 DEF Listed
  <2>3. Alone(d)'
    BY <1>3, <2>1, <2>2 DEF Alone
  <2>4. Expected(d)' /\ Counted(d)'
    BY <1>1, <1>3, <2>1, <2>2 DEF Fine, Expected, Counted
  <2> QED  BY <2>3, <2>4 DEF Fine
<1> QED  BY <1>4, <1>5

(***************************************************************************)
(* ingest_event: the rows of a new event are in nobody's hands yet.        *)
(***************************************************************************)
LEMMA IngestCalm ==
    ASSUME TypeOK, NEW d \in Deliveries, Fine(d), NEW r \in Requests,
           NEW ev \in Events, Ingest(r, ev)
    PROVE  Fine(d)'
<1> DEFINE fanout == {c \in Deliveries : /\ EventOf[c] = ev
                                         /\ epStatus[EndpointOf[c]] = "active"}
<1>0. req \in [Requests -> RequestState] /\ None \notin Deliveries
  BY IdentityAssumption DEF TypeOK
<1>1. /\ UNCHANGED <<rows, zset, stream, wk>> /\ ingested' = ingested \cup {ev}
      /\ row'[d] = IF d \in fanout THEN [status |-> "pending", attempts |-> 0]
                                   ELSE row[d]
      /\ req'[r] = [pc |-> "next", kind |-> "ingest", todo |-> fanout, cur |-> None]
      /\ \A q \in Requests : q # r => req'[q] = req[q]
  BY <1>0 DEF Ingest, queues
<1>2. d \in fanout => EventOf[d] \notin ingested
  BY DEF Ingest
<1> HIDE DEF fanout
<1>3. \A u \in Workers : (Holds(u, d)' <=> Holds(u, d)) /\ wk'[u] = wk[u]
  BY <1>1 DEF Holds
<1>4. /\ req'[r].pc = "next"
      /\ InHand(r, d)' <=> d \in fanout
      /\ \A q \in Requests : q # r => /\ InHand(q, d)' <=> InHand(q, d)
                                      /\ req'[q].pc = req[q].pc
  BY <1>0, <1>1 DEF InHand
<1>5. CASE d \notin fanout
  BY <1>1, <1>3, <1>4, <1>5, Calmer
<1>6. CASE d \in fanout
  <2>1. row[d].status = "absent"
    BY <1>2, <1>6 DEF Fine, Expected
  <2>2. /\ ~Listed(d) /\ (\A u \in Workers : ~Holds(u, d))
        /\ \A q \in Requests : ~InHand(q, d)
    BY <2>1 DEF Fine, Expected, Open
  <2>3. ~Listed(d)'
    BY <1>1, <2>2 DEF Listed
  <2>4. Alone(d)'
    BY <1>3, <1>4, <2>2, <2>3 DEF Alone, Listed
  <2>5. row'[d].status = "pending" /\ row'[d].attempts = 0
    BY <1>1, <1>6
  <2>6. Expected(d)'
    <3>1. EventOf[d] \in ingested'
      BY <1>1, <1>6 DEF fanout
    <3> QED  BY <1>3, <1>4, <2>2, <2>3, <2>5, <3>1 DEF Expected, Open
  <2>7. Counted(d)'
    <3>1. rows'[d] = 0
      BY <1>1, <2>1 DEF Fine, Counted
    <3> QED  BY <2>5, <3>1, PolicyAssumption DEF Counted
  <2> QED  BY <2>4, <2>6, <2>7 DEF Fine
<1> QED  BY <1>5, <1>6

(***************************************************************************)
(* replay: a dead row is in nobody's hands, and stays dead until the one   *)
(* request that selected it has committed.                                 *)
(***************************************************************************)
LEMMA SelectCalm ==
    ASSUME TypeOK, ReplaysApart', NEW d \in Deliveries, Fine(d), NEW r \in Requests,
           NEW e \in Endpoints, NEW chosen \in SUBSET Deliveries,
           NEW kind \in ReplayKinds, ReplaySelect(r, e, chosen, kind)
    PROVE  Fine(d)'
<1>0. req \in [Requests -> RequestState] /\ None \notin Deliveries
  BY IdentityAssumption DEF TypeOK
<1>1. /\ UNCHANGED <<row, rows, zset, stream, wk, ingested>>
      /\ d \in chosen => row[d].status = "dead"
      /\ req'[r] = [pc |-> "commit", kind |-> kind, todo |-> chosen, cur |-> None]
      /\ \A q \in Requests : q # r => req'[q] = req[q]
  BY <1>0 DEF ReplaySelect, queues, db
<1>3. \A u \in Workers : (Holds(u, d)' <=> Holds(u, d)) /\ wk'[u] = wk[u]
  BY <1>1 DEF Holds
<1>4. /\ req'[r].pc = "commit"
      /\ InHand(r, d)' <=> d \in chosen
      /\ \A q \in Requests : q # r => /\ InHand(q, d)' <=> InHand(q, d)
                                      /\ req'[q].pc = req[q].pc
  BY <1>0, <1>1 DEF InHand
<1>5. CASE d \notin chosen
  BY <1>1, <1>3, <1>4, <1>5, Calmer
<1>6. CASE d \in chosen
  <2>1. row[d].status = "dead"
    BY <1>1, <1>6
  <2>2. /\ ~Listed(d) /\ (\A u \in Workers : ~Holds(u, d))
        /\ \A q \in Requests : InHand(q, d) => req[q].pc = "commit"
    BY <2>1 DEF Fine, Expected, Open
  <2>3. ASSUME NEW q \in Requests, q # r, InHand(q, d)' PROVE FALSE
    <3>1. req'[q].pc = "commit" /\ req'[q] \in RequestState
      BY <1>0, <1>1, <1>4, <2>2, <2>3
    <3>2. d \in req'[q].todo
      BY <2>3, <3>1 DEF InHand, RequestState
    <3>3. req'[r].todo = chosen
      BY <1>1
    <3> QED  BY <1>4, <1>6, <2>3, <3>1, <3>2, <3>3 DEF ReplaysApart
  <2>4. ~Listed(d)'
    BY <1>1, <2>2 DEF Listed
  <2>5. Alone(d)'
    BY <1>3, <2>2, <2>3, <2>4 DEF Alone, Listed
  <2>6. Expected(d)' /\ Counted(d)'
    BY <1>1, <1>3, <1>4, <2>1, <2>2, <2>3, <2>4 DEF Fine, Expected, Counted
  <2> QED  BY <2>5, <2>6 DEF Fine
<1> QED  BY <1>5, <1>6

\* The commit of replay finds the rows as its SELECT did.
LEMMA ReplayFacts ==
    ASSUME TypeOK, NEW r \in Requests, ReplayCommit(r), \A d \in Deliveries : Fine(d)
    PROVE  \A d \in req[r].todo : d \in Deliveries /\ row[d].status = "dead"
  BY DEF ReplayCommit, Fine, Expected, InHand, TypeOK, RequestState, RequestRecord

\* It gives them a new budget and a new audit trail.
LEMMA ReplayCalm ==
    ASSUME TypeOK, NEW d \in Deliveries, Fine(d), NEW r \in Requests, ReplayCommit(r)
    PROVE  Fine(d)'
<1>0. /\ req \in [Requests -> RequestState] /\ req[r] \in RequestRecord
      /\ req[r].pc = "commit" /\ req[r].cur \notin Deliveries
  BY DEF TypeOK, RequestState, ReplayCommit
<1>1. /\ UNCHANGED <<zset, stream, wk, ingested>>
      /\ row'[d] = IF d \in req[r].todo THEN [status |-> "pending", attempts |-> 0]
                                        ELSE row[d]
      /\ rows'[d] = IF d \in req[r].todo THEN 0 ELSE rows[d]
      /\ req'[r].pc = "next" /\ req'[r].cur = req[r].cur /\ req'[r].todo = req[r].todo
      /\ \A q \in Requests : q # r => req'[q] = req[q]
  BY <1>0 DEF ReplayCommit, queues, RequestRecord
<1>3. \A u \in Workers : (Holds(u, d)' <=> Holds(u, d)) /\ wk'[u] = wk[u]
  BY <1>1 DEF Holds
<1>4. /\ InHand(r, d) <=> d \in req[r].todo
      /\ \A q \in Requests : /\ InHand(q, d)' <=> InHand(q, d)
                             /\ q # r => req'[q].pc = req[q].pc
  BY <1>0, <1>1 DEF InHand
<1>5. CASE d \notin req[r].todo
  BY <1>1, <1>3, <1>4, <1>5, Calmer
<1>6. CASE d \in req[r].todo
  <2>2. /\ ~Listed(d) /\ (\A u \in Workers : ~Holds(u, d))
        /\ \A q \in Requests : InHand(q, d) => q = r
    BY <1>4, <1>6 DEF Fine, Alone
  <2>3. ~Listed(d)'
    BY <1>1, <2>2 DEF Listed
  <2>4. Alone(d)'
    BY <1>3, <1>4, <2>2, <2>3 DEF Alone, Listed
  <2>5. row'[d].status = "pending" /\ row'[d].attempts = 0 /\ rows'[d] = 0
    BY <1>1, <1>6
  <2>6. Expected(d)'
    <3>1. EventOf[d] \in ingested
      BY <1>0, <1>4, <1>6 DEF Fine, Expected
    <3> QED  BY <1>1, <1>3, <1>4, <2>2, <2>3, <2>5, <3>1 DEF Expected, Open
  <2>7. Counted(d)'
    BY <2>5, PolicyAssumption DEF Counted
  <2> QED  BY <2>4, <2>6, <2>7 DEF Fine
<1> QED  BY <1>5, <1>6

-----------------------------------------------------------------------------
\* XADD of a delivery that is not in the stream yet.
LEMMA AppendOnce ==
    ASSUME TypeOK, Once, NEW c \in Deliveries, c \notin ToSet(stream),
           stream' = Append(stream, c)
    PROVE  Once'
<1>1. /\ stream \in Seq(Deliveries) /\ Len(stream) \in Nat
      /\ DOMAIN stream = 1..Len(stream)
      /\ Len(stream') = Len(stream) + 1
      /\ \A i \in 1..Len(stream) : stream'[i] = stream[i]
      /\ stream'[Len(stream) + 1] = c
  BY DEF TypeOK, TypeQueues
<1>2. \A i \in 1..Len(stream) : stream[i] # c
  BY <1>1 DEF ToSet
<1> QED  BY <1>1, <1>2 DEF Once

\* The stream never has two entries for one delivery.
LEMMA OnceStep ==
    ASSUME TypeOK, Once, \A d \in Deliveries : Fine(d), [Next]_vars
    PROVE  Once'
<1>1. ASSUME NEW r \in Requests, EnqueueDelivery(r) PROVE Once'
  <2> DEFINE c == req[r].cur
  <2>1. c \in Deliveries /\ InHand(r, c) /\ stream' = Append(stream, c)
    BY <1>1 DEF EnqueueDelivery, TypeOK, RequestState, InHand
  <2>2. c \notin ToSet(stream)
    BY <2>1 DEF Fine, Alone, Listed
  <2> HIDE DEF c
  <2> QED  BY <2>1, <2>2, AppendOnce
<1>2. ASSUME NEW c \in Deliveries, MoveDue(c) PROVE Once'
  <2>1. c \notin ToSet(stream) /\ stream' = Append(stream, c)
    BY <1>2 DEF MoveDue, Fine, Alone
  <2> QED  BY <2>1, AppendOnce
<1>3. ASSUME NEW w \in Workers, NEW s \in Slots, Read(w, s) PROVE Once'
  BY <1>3, TailFacts DEF Read, Once
<1>4. ASSUME UNCHANGED stream PROVE Once'
  BY <1>4 DEF Once
<1> QED
  BY <1>1, <1>2, <1>3, <1>4
  DEF Next, vars, queues, Serve, Ingest, ReplaySelect, ReplayCommit, EnqueueNext,
      ClearRetry, EnqueueOrdered, RequestDies, PatchEndpoint, Reclaim, Handle, Load,
      AcquireLock, PeekHead, YieldLock, Defer, PassGates, FailGates, AutoDisable, Begin,
      Send, Record, Schedule, Refresh, PopHead, ReleaseLock, Ack, Raises, Crash,
      ExpireLock

(***************************************************************************)
(* Without faults every entry that was read keeps its handler until it is  *)
(* acknowledged, so that there is nothing to reclaim but by stealing.      *)
(***************************************************************************)
LEMMA NothingToReclaim ==
    ASSUME TypeOK, Handled, spent'.faults = 0, spent'.steals = 0
    PROVE  /\ \A w \in Workers, s \in Slots : ~Reclaim(w, s)
           /\ \A w \in Workers : ~Raises(w) /\ ~Crash(w)
<1>0. spent \in [faults : Nat, expiries : Nat, steals : Nat, lost : Nat,
                 replays : Nat, patches : Nat]
  BY DEF TypeOK, TypeHistory
<1>1. \A w \in Workers, s \in Slots : ~Reclaim(w, s)
  BY <1>0 DEF Reclaim, Handlers, Handled
<1>2. \A w \in Workers : ~Raises(w) /\ ~Crash(w)
  BY <1>0 DEF Raises, Crash
<1> QED  BY <1>1, <1>2

\* Entries and handlers stay together.
LEMMA HandledStep ==
    ASSUME TypeOK, Handled, [Next]_vars, spent'.faults = 0, spent'.steals = 0
    PROVE  Handled'
<1>0. /\ wk \in [Workers -> WorkerState] /\ None \notin Slots
      /\ \A u \in Workers : wk[u].pc = "idle" => wk[u].slot = None
      /\ pel \in [Slots -> Deliveries \cup {None}]
  BY IdentityAssumption DEF TypeOK, TypeQueues, WorkerState, Idle
<1>1. ASSUME NEW w \in Workers, NEW v, Become(w, v), v.slot = wk[w].slot, v.ack = wk[w].ack,
             UNCHANGED pel
      PROVE  Handled'
  <2>1. \A u \in Workers : wk'[u].slot = wk[u].slot /\ wk'[u].ack = wk[u].ack
    BY <1>0, <1>1 DEF Become
  <2> QED  BY <1>1, <2>1 DEF Handled
<1>2. ASSUME NEW w \in Workers, NEW p, Goto(w, p), wk[w].pc # "idle", UNCHANGED pel
      PROVE  Handled'
  <2> DEFINE v == [wk[w] EXCEPT !.pc = p]
  <2>1. v.slot = wk[w].slot /\ v.ack = wk[w].ack /\ Become(w, v)
    BY <1>0, <1>2, HandlerFacts DEF Goto, WorkerRecord
  <2> HIDE DEF v
  <2> QED  BY <1>1, <1>2, <2>1
<1>3. ASSUME NEW w \in Workers, NEW s \in Slots, Read(w, s) PROVE Handled'
  <2> DEFINE v == [Idle EXCEPT !.pc = "load", !.slot = s, !.cur = Head(stream)]
  <2>1. /\ wk' = [wk EXCEPT ![w] = v] /\ wk[w].pc = "idle" /\ v.slot = s /\ v.ack
        /\ pel' = [pel EXCEPT ![s] = Head(stream)]
    BY <1>3 DEF Read, Start, Become, Idle
  <2> HIDE DEF v
  <2>2. wk'[w] = v /\ \A u \in Workers : u # w => wk'[u] = wk[u]
    BY <1>0, <2>1
  <2>3. ASSUME NEW t \in Slots, pel'[t] # None PROVE \E u \in Workers : wk'[u].slot = t
    <3>1. CASE t = s
      BY <2>1, <2>2, <3>1
    <3>2. CASE t # s
      <4>1. pel[t] # None
        BY <1>0, <2>1, <2>3, <3>2
      <4>2. PICK u \in Workers : wk[u].slot = t
        BY <4>1 DEF Handled
      <4>3. u # w
        BY <1>0, <2>1, <4>2
      <4> QED  BY <2>2, <4>2, <4>3
    <3> QED  BY <3>1, <3>2
  <2> QED  BY <2>1, <2>2, <2>3 DEF Handled
<1>4. ASSUME NEW w \in Workers, Ack(w) PROVE Handled'
  <2>1. /\ wk' = [wk EXCEPT ![w] = Idle] /\ pel' = [pel EXCEPT ![wk[w].slot] = None]
        /\ wk[w].slot \in Slots /\ Idle.ack
    BY <1>0, <1>4, HandlerFacts DEF Ack, Become, At, Idle
  <2>2. wk'[w] = Idle /\ \A u \in Workers : u # w => wk'[u] = wk[u]
    BY <1>0, <2>1
  <2>3. ASSUME NEW t \in Slots, pel'[t] # None PROVE \E u \in Workers : wk'[u].slot = t
    <3>1. t # wk[w].slot /\ pel[t] # None
      BY <1>0, <2>1, <2>3
    <3>2. PICK u \in Workers : wk[u].slot = t
      BY <3>1 DEF Handled
    <3> QED  BY <2>2, <3>1, <3>2
  <2> QED  BY <2>1, <2>2, <2>3 DEF Handled
<1>5. ASSUME NEW w \in Workers, Handle(w), ~Ack(w) PROVE Handled'
  <2>0. /\ wk[w] \in WorkerRecord /\ wk[w].pc # "idle" /\ UNCHANGED pel
    BY <1>0, <1>5, HandlerFacts
    DEF Handle, Load, AcquireLock, PeekHead, YieldLock, Defer, PassGates, FailGates,
        AutoDisable, Begin, Send, Record, Schedule, Refresh, PopHead, ReleaseLock, At,
        queues
  <2>1. ASSUME NEW p, NEW x, Become(w, [wk[w] EXCEPT !.pc = p, !.view = x])
        PROVE  Handled'
    <3> DEFINE v == [wk[w] EXCEPT !.pc = p, !.view = x]
    <3>1. v.slot = wk[w].slot /\ v.ack = wk[w].ack /\ Become(w, v)
      BY <2>0, <2>1 DEF WorkerRecord
    <3> HIDE DEF v
    <3> QED  BY <1>1, <2>0, <3>1
  <2>2. ASSUME NEW p, NEW x, Become(w, [wk[w] EXCEPT !.pc = p, !.token = x])
        PROVE  Handled'
    <3> DEFINE v == [wk[w] EXCEPT !.pc = p, !.token = x]
    <3>1. v.slot = wk[w].slot /\ v.ack = wk[w].ack /\ Become(w, v)
      BY <2>0, <2>2 DEF WorkerRecord
    <3> HIDE DEF v
    <3> QED  BY <1>1, <2>0, <3>1
  <2>3. ASSUME NEW result \in Results, Send(w, result) PROVE Handled'
    <3> DEFINE v == [wk[w] EXCEPT !.pc = "record", !.result = result]
    <3>1. v.slot = wk[w].slot /\ v.ack = wk[w].ack /\ Become(w, v)
      BY <2>0, <2>3 DEF WorkerRecord, Send
    <3> HIDE DEF v
    <3> QED  BY <1>1, <2>0, <3>1
  <2>4. CASE Load(w) \/ Begin(w) \/ Refresh(w)
    BY <2>1, <2>4 DEF Load, Begin, Refresh
  <2>5. CASE Record(w)
    <3> DEFINE x == [wk[w].view EXCEPT !.status = Outcome(w)]
               p == IF Outcome(w) = "failed" THEN "schedule" ELSE "refresh"
    <3>1. Become(w, [wk[w] EXCEPT !.pc = p, !.view = x])
      BY <2>5 DEF Record
    <3> HIDE DEF x, p
    <3> QED  BY <2>1, <3>1
  <2>6. CASE AcquireLock(w) \/ YieldLock(w)
    BY <1>2, <2>0, <2>2, <2>6 DEF AcquireLock, YieldLock
  <2>7. CASE \/ PeekHead(w) \/ Defer(w) \/ PassGates(w) \/ FailGates(w)
             \/ AutoDisable(w) \/ Schedule(w) \/ PopHead(w)
    BY <1>2, <2>0, <2>7
    DEF PeekHead, Defer, PassGates, FailGates, AutoDisable, Schedule, PopHead
  <2>8. CASE ReleaseLock(w)
    <3>1. wk[w].ack
      BY DEF Handled
    <3> QED  BY <2>2, <2>8, <3>1 DEF ReleaseLock
  <2> QED
    BY <1>5, <2>3, <2>4, <2>5, <2>6, <2>7, <2>8 DEF Handle
<1>6. ASSUME UNCHANGED <<wk, pel>> PROVE Handled'
  BY <1>6 DEF Handled
<1> QED
  BY <1>3, <1>4, <1>5, <1>6, NothingToReclaim
  DEF Next, vars, queues, Serve, Ingest, ReplaySelect, ReplayCommit, EnqueueNext,
      ClearRetry, EnqueueOrdered, EnqueueDelivery, RequestDies, PatchEndpoint, MoveDue,
      ExpireLock

\* Every step of a calm system keeps every delivery fine.
LEMMA FineStep ==
    ASSUME TypeOK, CalmInv, [Next]_vars, Calm', NEW d \in Deliveries
    PROVE  Fine(d)'
<1>0. Fine(d) /\ Once /\ Apart /\ Handled
  BY DEF CalmInv
<1>1. ASSUME NEW w \in Workers, Handle(w) PROVE Fine(d)'
  <2>1. wk[w].pc # "idle" => Fine(wk[w].cur)
    BY HandlerFacts DEF CalmInv, TypeOK
  <2>2. CASE Begin(w)
    BY <1>0, <2>1, <2>2, BeginCalm DEF Begin, At
  <2>3. CASE Record(w)
    BY <1>0, <2>1, <2>3, RecordCalm DEF Record, At
  <2> QED
    BY <1>0, <1>1, <2>2, <2>3, HandlerCalm, ShelveCalm DEF Handle
<1>2. ASSUME NEW r \in Requests, Serve(r) \/ RequestDies(r) PROVE Fine(d)'
  BY <1>0, <1>2, RequestCalm, EnqueueCalm, ReplayCalm DEF Serve
<1>3. ASSUME UNCHANGED <<row, rows, ingested, zset, stream, wk, req>> PROVE Fine(d)'
  BY <1>0, <1>3, Calmer DEF InHand
<1>4. ASSUME NEW r \in Requests, NEW e \in Endpoints, NEW chosen \in SUBSET Deliveries,
             NEW kind \in ReplayKinds, ReplaySelect(r, e, chosen, kind)
      PROVE  Fine(d)'
  BY <1>0, <1>4, SelectCalm DEF Calm
<1>5. ASSUME \/ \E r \in Requests, ev \in Events : Ingest(r, ev)
             \/ \E c \in Deliveries : MoveDue(c)
             \/ \E w \in Workers, s \in Slots : Read(w, s)
      PROVE  Fine(d)'
  BY <1>0, <1>5, IngestCalm, MoveDueCalm, ReadCalm
<1>6. /\ \A w \in Workers, s \in Slots : ~Reclaim(w, s)
      /\ \A w \in Workers : ~Raises(w) /\ ~Crash(w)
  BY <1>0, NothingToReclaim DEF Calm
<1>7. ASSUME \/ \E e \in Endpoints, s \in {"active", "paused", "disabled"} : PatchEndpoint(e, s)
             \/ \E e \in Endpoints : ExpireLock(e)
             \/ UNCHANGED vars
      PROVE  Fine(d)'
  BY <1>3, <1>7 DEF PatchEndpoint, ExpireLock, vars, queues, db
<1> QED
  BY <1>1, <1>2, <1>4, <1>5, <1>6, <1>7 DEF Next

\* The invariant holds as long as the system is calm.
LEMMA CalmAlways == Spec /\ []Calm => [](TypeOK /\ CalmInv)
<1>1. Init => CalmInv
  <2> SUFFICES ASSUME Init PROVE CalmInv
    OBVIOUS
  <2>1. Handled /\ Once /\ Apart
    BY DEF Init, Handled, Once, Apart, Idle, NoRequest
  <2>2. ASSUME NEW d \in Deliveries PROVE Fine(d)
    <3>1. ~Listed(d) /\ d \notin ToSet(stream)
      BY DEF Init, Listed, ToSet
    <3>2. \A w \in Workers : ~Holds(w, d)
      BY DEF Init, Holds, Idle, AtWork
    <3>3. \A r \in Requests : ~InHand(r, d)
      BY IdentityAssumption DEF Init, InHand, NoRequest
    <3>4. row[d].status = "absent" /\ row[d].attempts = 0 /\ rows[d] = 0
      BY DEF Init, NoRow
    <3>5. Alone(d) /\ Expected(d)
      BY <3>1, <3>2, <3>3, <3>4 DEF Alone, Expected
    <3>6. Counted(d)
      BY <3>4, PolicyAssumption DEF Counted, Open
    <3> QED  BY <3>5, <3>6 DEF Fine
  <2> QED  BY <2>1, <2>2 DEF CalmInv
<1>2. TypeOK /\ CalmInv /\ [Next]_vars /\ Calm' => CalmInv'
  <2> SUFFICES ASSUME TypeOK, CalmInv, [Next]_vars, Calm' PROVE CalmInv'
    OBVIOUS
  <2>1. Once' /\ Apart' /\ Handled'
    BY OnceStep, ApartStep, HandledStep DEF CalmInv, Calm
  <2>2. \A d \in Deliveries : Fine(d)'
    BY FineStep
  <2> QED  BY <2>1, <2>2 DEF CalmInv
<1> QED
  BY <1>1, <1>2, TypeCorrect, PTL DEF Spec

(***************************************************************************)
(* AuditCorrect: the audit trail of a settled delivery has a row for each  *)
(* attempt, for any number of workers, requests, retries and replays, and  *)
(* whatever locks expire, requests die and endpoints are paused, as long   *)
(* as no worker fails, no entry is stolen from its handler and no two      *)
(* replays select the same delivery (worker.py, process_delivery commits   *)
(* the attempt row with the outcome).                                      *)
(***************************************************************************)
THEOREM AuditCorrect == Spec /\ []Calm => []AuditComplete
<1>1. CalmInv => AuditComplete
  BY DEF CalmInv, Fine, Counted, AuditComplete, Settled
<1> QED
  BY <1>1, CalmAlways, PTL

-----------------------------------------------------------------------------
(***************************************************************************)
(* The refinement: what a step does to the rows is a step of the life of   *)
(* the deliveries, or none.                                                *)
(***************************************************************************)
Life == [d \in Deliveries |-> [state |-> Seen(row[d].status),
                               tries |-> row[d].attempts]]

\* A step that accepts or replays deliveries.
LEMMA AcceptStep ==
    ASSUME TypeOK, NEW ds \in SUBSET Deliveries, NEW from \in {"absent", "dead"},
           \A d \in ds : row[d].status = from,
           row' = [d \in Deliveries |-> IF d \in ds
                                        THEN [status |-> "pending", attempts |-> 0]
                                        ELSE row[d]]
    PROVE  Lifecycle!Next
<1>1. \A d \in ds : Life[d].state = from
  BY DEF Life, Seen
<1>2. Life' = [d \in Deliveries |-> IF d \in ds THEN Lifecycle!Waiting ELSE Life[d]]
  BY DEF Life, Seen, Lifecycle!Waiting
<1>3. Lifecycle!Accept(ds, from)
  BY <1>1, <1>2 DEF Lifecycle!Accept, Life
<1> QED  BY <1>3 DEF Lifecycle!Next

\* The first commit of an attempt.
LEMMA AttemptStep ==
    ASSUME TypeOK, NEW w \in Workers, Begin(w), Fine(wk[w].cur)
    PROVE  Lifecycle!Next
<1> PICK c \in Deliveries : c = wk[w].cur
  BY BeginFacts
<1> DEFINE n == [status |-> "delivering", attempts |-> row[c].attempts + 1]
<1>0. /\ c \in Deliveries /\ row[c].status \in Open /\ row[c].attempts < MAX_ATTEMPTS
      /\ row' = [row EXCEPT ![c] = n] /\ row \in [Deliveries -> Row]
  BY BeginFacts DEF TypeOK, TypeDb
<1>1. Life[c].state = "waiting" /\ Life[c].tries = row[c].attempts
  BY <1>0 DEF Life, Seen, Open
<1>2. Life' = [Life EXCEPT ![c] = [state |-> "sending", tries |-> @.tries + 1]]
  <2>1. /\ Life'[c] = [state |-> "sending", tries |-> row[c].attempts + 1]
        /\ \A d \in Deliveries : d # c => Life'[d] = Life[d]
    BY <1>0 DEF Life, Seen
  <2> QED  BY <1>0, <1>1, <2>1 DEF Life
<1>3. Lifecycle!Attempt(c)
  BY <1>0, <1>1, <1>2 DEF Lifecycle!Attempt, Life
<1> QED  BY <1>0, <1>3 DEF Lifecycle!Next

\* The second one.
LEMMA ConcludeStep ==
    ASSUME TypeOK, NEW w \in Workers, Record(w), Fine(wk[w].cur)
    PROVE  Lifecycle!Next
<1> PICK c \in Deliveries : c = wk[w].cur
  BY RecordFacts
<1> DEFINE o == Outcome(w)
<1>0. /\ c \in Deliveries /\ row[c].status = "delivering"
      /\ o \in {"delivered", "dead", "failed"}
      /\ o = "failed" => row[c].attempts < MAX_ATTEMPTS
      /\ row' = [row EXCEPT ![c].status = o] /\ row \in [Deliveries -> Row]
  BY RecordFacts, OutcomeFacts DEF TypeOK, TypeDb
<1> HIDE DEF o
<1>1. Life[c].state = "sending" /\ Life[c].tries = row[c].attempts
  BY <1>0 DEF Life, Seen
<1>2. Life' = [Life EXCEPT ![c].state = Seen(o)]
  <2>1. /\ row'[c].status = o /\ row'[c].attempts = row[c].attempts
        /\ \A d \in Deliveries : d # c => row'[d] = row[d]
    BY <1>0 DEF Row
  <2>2. /\ Life'[c] = [state |-> Seen(o), tries |-> row[c].attempts]
        /\ \A d \in Deliveries : d # c => Life'[d] = Life[d]
    BY <1>0, <2>1 DEF Life
  <2>3. Life[c] = [state |-> Seen(row[c].status), tries |-> row[c].attempts]
    BY <1>0 DEF Life
  <2>4. [Life[c] EXCEPT !.state = Seen(o)] = [state |-> Seen(o), tries |-> row[c].attempts]
    BY <2>3
  <2> QED  BY <1>0, <2>2, <2>4 DEF Life
<1>3. /\ Seen(o) \in {"delivered", "dead", "waiting"}
      /\ Seen(o) = "waiting" => Life[c].tries < MAX_ATTEMPTS
  BY <1>0, <1>1 DEF Seen
<1>4. Lifecycle!Conclude(c)
  BY <1>1, <1>2, <1>3 DEF Lifecycle!Conclude, Life
<1> QED  BY <1>0, <1>4 DEF Lifecycle!Next

(***************************************************************************)
(* LifecycleCorrect: the rows of a calm pipeline go through the life of    *)
(* DeliveryLifecycle.  However many workers, requests, retries and replays *)
(* there are, 'delivered' is final, attempts of one delivery never overlap *)
(* nor exceed the budget, and only the dead are replayed (worker.py:       *)
(* "nothing else writes to this row meanwhile").                           *)
(***************************************************************************)
THEOREM LifecycleCorrect == Spec /\ []Calm => FollowsLifecycle
<1>1. Init => Lifecycle!Init
  BY DEF Init, Lifecycle!Init, Lifecycle!New, NoRow, Seen
<1>2. TypeOK /\ CalmInv /\ [Next]_vars /\ Calm' => [Lifecycle!Next]_Life
  <2> SUFFICES ASSUME TypeOK, CalmInv, [Next]_vars, Calm', row' # row
               PROVE  Lifecycle!Next
    BY DEF Life
  <2>0. \A d \in Deliveries : Fine(d)
    BY DEF CalmInv
  <2>1. ASSUME NEW r \in Requests, NEW ev \in Events, Ingest(r, ev)
        PROVE  Lifecycle!Next
    <3> DEFINE fanout == {d \in Deliveries : /\ EventOf[d] = ev
                                             /\ epStatus[EndpointOf[d]] = "active"}
    <3>1. \A d \in fanout : row[d].status = "absent"
      BY <2>0, <2>1 DEF Ingest, Fine, Expected
    <3>2. row' = [d \in Deliveries |-> IF d \in fanout
                                       THEN [status |-> "pending", attempts |-> 0]
                                       ELSE row[d]]
      BY <2>1 DEF Ingest
    <3>3. fanout \in SUBSET Deliveries
      OBVIOUS
    <3> HIDE DEF fanout
    <3> QED  BY <3>1, <3>2, <3>3, AcceptStep
  <2>2. ASSUME NEW r \in Requests, ReplayCommit(r) PROVE Lifecycle!Next
    <3> DEFINE ds == req[r].todo
    <3>1. ds \in SUBSET Deliveries /\ \A d \in ds : row[d].status = "dead"
      BY <2>0, <2>2, ReplayFacts
    <3>2. row' = [d \in Deliveries |-> IF d \in ds
                                       THEN [status |-> "pending", attempts |-> 0]
                                       ELSE row[d]]
      BY <2>2 DEF ReplayCommit
    <3> HIDE DEF ds
    <3> QED  BY <3>1, <3>2, AcceptStep
  <2>3. ASSUME NEW w \in Workers, Begin(w) PROVE Lifecycle!Next
    BY <2>0, <2>3, AttemptStep, HandlerFacts DEF Begin, At, TypeOK
  <2>4. ASSUME NEW w \in Workers, Record(w) PROVE Lifecycle!Next
    BY <2>0, <2>4, ConcludeStep, HandlerFacts DEF Record, At, TypeOK
  <2> QED
    BY <2>1, <2>2, <2>3, <2>4
    DEF Next, vars, db, Serve, ReplaySelect, EnqueueNext, ClearRetry, EnqueueOrdered,
        EnqueueDelivery, RequestDies, PatchEndpoint, MoveDue, Read, Reclaim, Handle, Load,
        AcquireLock, PeekHead, YieldLock, Defer, PassGates, FailGates, AutoDisable, Send,
        Schedule, Refresh, PopHead, ReleaseLock, Ack, Raises, Crash, ExpireLock
<1>3. Spec /\ []Calm => Lifecycle!Init /\ [][Lifecycle!Next]_Life
  BY <1>1, <1>2, CalmAlways, PTL DEF Spec
<1> QED
  BY <1>3, PTL DEF FollowsLifecycle, Lifecycle!Spec, Life
=============================================================================
