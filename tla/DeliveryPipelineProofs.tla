----------------------- MODULE DeliveryPipelineProofs -----------------------
(***************************************************************************)
(* Proofs about DeliveryPipeline, for any number of workers, requests,     *)
(* events, deliveries and endpoints, and for any bounds on faults.         *)
(***************************************************************************)
EXTENDS DeliveryPipeline, SequenceTheorems, WellFoundedInduction,
        TLAPS

(***************************************************************************)
(* LREM either finds nothing and changes nothing, or cuts out one position *)
(* k that held the element and keeps the order of the rest (pop_head).     *)
(***************************************************************************)
LEMMA LREMFacts ==
    ASSUME NEW S, NEW q \in Seq(S), NEW d
    PROVE  /\ LREM(q, d) \in Seq(S)
           /\ \/ /\ \A i \in 1..Len(q) : q[i] # d
                 /\ LREM(q, d) = q
              \/ \E k \in 1..Len(q) :
                    /\ q[k] = d
                    /\ Len(LREM(q, d)) = Len(q) - 1
                    /\ \A j \in 1..(Len(q) - 1) :
                          LREM(q, d)[j] = IF j < k THEN q[j] ELSE q[j + 1]
<1> DEFINE I == Positions(q, d)
           k == Min(I)
           before == SubSeq(q, 1, k - 1)
           after  == SubSeq(q, k + 1, Len(q))
<1>1. CASE I = {}
  BY <1>1 DEF LREM, Positions
<1>2. CASE I # {}
  <2>1. I \subseteq Nat
    BY DEF Positions
  <2> DEFINE Less == {ss \in Nat \X Nat : ss[1] < ss[2]}
  <2>a. IsWellFoundedOn(Less, Nat)
    BY NatLessThanWellFounded DEF OpToRel
  <2>2. \E n \in I : \A m \in I : ~(<<m, n>> \in Less)
    <3> HIDE DEF I, Less
    <3> QED
      BY <1>2, <2>1, <2>a, WFMin
  <2>3. \E n \in I : \A m \in I : n =< m
    <3>1. PICK n \in I : \A m \in I : ~(<<m, n>> \in Less)
      BY <2>2
    <3>2. \A m \in I : n =< m
      <4> SUFFICES ASSUME NEW m \in I PROVE n =< m
        OBVIOUS
      <4>1. m \in Nat /\ n \in Nat
        BY <2>1
      <4>2. ~(m < n)
        BY <3>1, <4>1
      <4> QED
        BY <4>1, <4>2
    <3> QED
      BY <3>2
  <2>4. k \in 1..Len(q) /\ q[k] = d
    BY <2>3 DEF Min, Positions
  <2>5. LREM(q, d) = before \o after
    BY <1>2 DEF LREM, RemoveAt
  <2>6. /\ before \in Seq(S)
        /\ Len(before) = k - 1
        /\ \A i \in 1..(k - 1) : before[i] = q[i]
    BY <2>4, SubSeqProperties, \A i \in 1..Len(q) : q[i] \in S
  <2>7. /\ after \in Seq(S)
        /\ Len(after) = Len(q) - k
        /\ \A i \in 1..(Len(q) - k) : after[i] = q[k + i]
    BY <2>4, SubSeqProperties
  <2> HIDE DEF k, before, after
  <2>8. /\ before \o after \in Seq(S)
        /\ Len(before \o after) = Len(q) - 1
        /\ \A i \in 1..(Len(q) - 1) :
              (before \o after)[i] = IF i <= k - 1 THEN before[i]
                                                   ELSE after[i - (k - 1)]
    <3>1. /\ before \o after \in Seq(S)
          /\ Len(before \o after) = Len(before) + Len(after)
          /\ \A i \in 1..(Len(before) + Len(after)) :
                (before \o after)[i] = IF i <= Len(before) THEN before[i]
                                       ELSE after[i - Len(before)]
      BY <2>6, <2>7, ConcatProperties
    <3>2. Len(before) + Len(after) = Len(q) - 1
      BY <2>4, <2>6, <2>7
    <3> QED
      BY <2>6, <3>1, <3>2
  <2>9. \A j \in 1..(Len(q) - 1) :
           LREM(q, d)[j] = IF j < k THEN q[j] ELSE q[j + 1]
    <3> SUFFICES ASSUME NEW j \in 1..(Len(q) - 1)
                 PROVE  LREM(q, d)[j] = IF j < k THEN q[j] ELSE q[j + 1]
      OBVIOUS
    <3>1. CASE j < k
      BY <3>1, <2>4, <2>5, <2>6, <2>8
    <3>2. CASE j >= k
      <4>1. j - (k - 1) \in 1..(Len(q) - k) /\ k + (j - (k - 1)) = j + 1
        BY <3>2, <2>4
      <4>2. (before \o after)[j] = after[j - (k - 1)]
        BY <3>2, <2>4, <2>8
      <4>3. after[j - (k - 1)] = q[j + 1]
        BY <4>1, <2>7
      <4>4. ~(j < k)
        BY <3>2, <2>4
      <4> QED
        BY <4>2, <4>3, <4>4, <2>5
    <3> QED
      BY <3>1, <3>2, <2>4
  <2> QED
    BY <2>4, <2>5, <2>8, <2>9
<1> QED
  BY <1>1, <1>2

(***************************************************************************)
(* Replacing the handler of one worker by a well-formed one.               *)
(***************************************************************************)
LEMMA BecomeType ==
    ASSUME wk \in [Workers -> WorkerState], NEW w \in Workers,
           NEW handler \in WorkerState, Become(w, handler)
    PROVE  wk' \in [Workers -> WorkerState]
  BY DEF Become

(***************************************************************************)
(* What a well-formed handler at work holds; and that it stays well-formed *)
(* in each way a step changes it: the program counter moves, alone or with *)
(* the view, the lock token, the acknowledgement or the result.            *)
(***************************************************************************)
LEMMA HandlerFacts ==
    ASSUME NEW v \in WorkerState, v.pc # "idle"
    PROVE  /\ v \in WorkerRecord
           /\ v.slot \in Slots /\ v.cur \in Deliveries /\ v.pc \in Busy
           /\ v.view \in Row /\ v.token \in BOOLEAN /\ v.ack \in BOOLEAN
           /\ v.result \in Results \cup {NoStatus}
  BY DEF WorkerState, WorkerRecord

\* Moving on.
LEMMA MoveType ==
    ASSUME NEW v \in WorkerState, v.pc # "idle", NEW p \in Busy
    PROVE  [v EXCEPT !.pc = p] \in WorkerState
  BY HandlerFacts DEF WorkerRecord, WorkerState, Busy

\* Moving on with a new view of the row.
LEMMA ViewType ==
    ASSUME NEW v \in WorkerState, v.pc # "idle", NEW p \in Busy, NEW view \in Row
    PROVE  [v EXCEPT !.pc = p, !.view = view] \in WorkerState
  BY HandlerFacts DEF WorkerRecord, WorkerState, Busy

\* Taking or giving back the lock.
LEMMA TokenType ==
    ASSUME NEW v \in WorkerState, v.pc # "idle", NEW p \in Busy, NEW b \in BOOLEAN
    PROVE  [v EXCEPT !.pc = p, !.token = b] \in WorkerState
  BY HandlerFacts DEF WorkerRecord, WorkerState, Busy

\* Moving on to the finally block with an exception.
LEMMA AckType ==
    ASSUME NEW v \in WorkerState, v.pc # "idle", NEW p \in Busy, NEW b \in BOOLEAN
    PROVE  [v EXCEPT !.pc = p, !.ack = b] \in WorkerState
  BY HandlerFacts DEF WorkerRecord, WorkerState, Busy

\* Coming back from a POST.
LEMMA ResultType ==
    ASSUME NEW v \in WorkerState, v.pc # "idle", NEW p \in Busy,
           NEW result \in Results
    PROVE  [v EXCEPT !.pc = p, !.result = result] \in WorkerState
  BY HandlerFacts DEF WorkerRecord, WorkerState, Busy

\* A worker between two entries.
LEMMA IdleType == Idle \in WorkerState
  BY DEF Idle, WorkerState, WorkerRecord, Busy, NoRow, Row, Status

\* A worker that starts on an entry.
LEMMA StartType ==
    ASSUME NEW s \in Slots, NEW d \in Deliveries
    PROVE  [Idle EXCEPT !.pc = "load", !.slot = s, !.cur = d] \in WorkerState
  BY DEF Idle, WorkerState, WorkerRecord, Busy, NoRow, Row, Status

(***************************************************************************)
(* The workers keep their type.  One step per action that moves a worker.  *)
(***************************************************************************)
LEMMA WorkerStep == TypeOK /\ [Next]_vars => wk' \in [Workers -> WorkerState]
<1> SUFFICES ASSUME TypeOK, [Next]_vars PROVE wk' \in [Workers -> WorkerState]
  OBVIOUS
<1>0. /\ wk \in [Workers -> WorkerState]
      /\ row \in [Deliveries -> Row]
      /\ stream \in Seq(Deliveries)
      /\ pel \in [Slots -> Deliveries \cup {None}]
  BY DEF TypeOK, TypeDb, TypeQueues
<1>1. ASSUME NEW w \in Workers, NEW s \in Slots, Read(w, s)
      PROVE  wk' \in [Workers -> WorkerState]
  BY <1>0, <1>1, BecomeType, StartType, HeadTailProperties
  DEF Read, Start
<1>2. ASSUME NEW w \in Workers, NEW s \in Slots, Reclaim(w, s)
      PROVE  wk' \in [Workers -> WorkerState]
  BY <1>0, <1>2, BecomeType, StartType
  DEF Reclaim, Start
<1>3. ASSUME NEW w \in Workers, Load(w)
      PROVE  wk' \in [Workers -> WorkerState]
  BY <1>0, <1>3, BecomeType, HandlerFacts, ViewType
  DEF Load, At, Busy
<1>4. ASSUME NEW w \in Workers, AcquireLock(w)
      PROVE  wk' \in [Workers -> WorkerState]
  BY <1>0, <1>4, BecomeType, TokenType, MoveType
  DEF AcquireLock, Goto, At, Busy
<1>5. ASSUME NEW w \in Workers, PeekHead(w)
      PROVE  wk' \in [Workers -> WorkerState]
  BY <1>0, <1>5, BecomeType, MoveType
  DEF PeekHead, Goto, At, Busy
<1>6. ASSUME NEW w \in Workers, YieldLock(w)
      PROVE  wk' \in [Workers -> WorkerState]
  BY <1>0, <1>6, BecomeType, TokenType
  DEF YieldLock, At, Busy
<1>7. ASSUME NEW w \in Workers, Defer(w)
      PROVE  wk' \in [Workers -> WorkerState]
  BY <1>0, <1>7, BecomeType, MoveType
  DEF Defer, Goto, Leave, At, Busy
<1>8. ASSUME NEW w \in Workers, PassGates(w)
      PROVE  wk' \in [Workers -> WorkerState]
  BY <1>0, <1>8, BecomeType, MoveType
  DEF PassGates, Goto, At, Busy
<1>9. ASSUME NEW w \in Workers, FailGates(w)
      PROVE  wk' \in [Workers -> WorkerState]
  BY <1>0, <1>9, BecomeType, MoveType
  DEF FailGates, Goto, At, Busy
<1>10. ASSUME NEW w \in Workers, AutoDisable(w)
      PROVE  wk' \in [Workers -> WorkerState]
  BY <1>0, <1>10, BecomeType, MoveType
  DEF AutoDisable, Goto, At, Busy
<1>11. ASSUME NEW w \in Workers, Begin(w)
      PROVE  wk' \in [Workers -> WorkerState]
  <2> DEFINE v == [status |-> "delivering", attempts |-> wk[w].view.attempts + 1]
  <2>1. v \in Row
    BY <1>0, <1>11, HandlerFacts DEF Begin, At, Row, Status
  <2>2. [wk[w] EXCEPT !.pc = "send", !.view = v] \in WorkerState
    BY <1>0, <1>11, <2>1, ViewType DEF Begin, At, Busy
  <2> QED
    BY <1>0, <1>11, <2>2, BecomeType DEF Begin
<1>12. ASSUME NEW w \in Workers, NEW result \in Results, Send(w, result)
      PROVE  wk' \in [Workers -> WorkerState]
  BY <1>0, <1>12, BecomeType, ResultType
  DEF Send, At, Busy
<1>13. ASSUME NEW w \in Workers, Record(w)
      PROVE  wk' \in [Workers -> WorkerState]
  BY <1>0, <1>13, BecomeType, HandlerFacts, ViewType
  DEF Record, Row, Status, Settled, Outcome, At, Busy
<1>14. ASSUME NEW w \in Workers, Schedule(w)
      PROVE  wk' \in [Workers -> WorkerState]
  BY <1>0, <1>14, BecomeType, MoveType
  DEF Schedule, Goto, At, Busy
<1>15. ASSUME NEW w \in Workers, Refresh(w)
      PROVE  wk' \in [Workers -> WorkerState]
  BY <1>0, <1>15, BecomeType, HandlerFacts, ViewType
  DEF Refresh, Leave, At, Busy
<1>16. ASSUME NEW w \in Workers, PopHead(w)
      PROVE  wk' \in [Workers -> WorkerState]
  BY <1>0, <1>16, BecomeType, MoveType
  DEF PopHead, Goto, Leave, At, Busy
<1>17. ASSUME NEW w \in Workers, ReleaseLock(w)
      PROVE  wk' \in [Workers -> WorkerState]
  BY <1>0, <1>17, BecomeType, TokenType, IdleType
  DEF ReleaseLock, At, Busy
<1>18. ASSUME NEW w \in Workers, Ack(w)
      PROVE  wk' \in [Workers -> WorkerState]
  BY <1>0, <1>18, BecomeType, IdleType
  DEF Ack, At
<1>19. ASSUME NEW w \in Workers, Raises(w)
      PROVE  wk' \in [Workers -> WorkerState]
  BY <1>0, <1>19, BecomeType, AckType, IdleType
  DEF Raises, Busy
<1>20. ASSUME NEW w \in Workers, Crash(w)
      PROVE  wk' \in [Workers -> WorkerState]
  BY <1>0, <1>20, BecomeType, IdleType
  DEF Crash
<1> QED
  BY <1>0, <1>1, <1>2, <1>3, <1>4, <1>5, <1>6, <1>7, <1>8, <1>9, <1>10, <1>11, <1>12, <1>13, <1>14, <1>15, <1>16, <1>17, <1>18, <1>19, <1>20
  DEF Next, Handle, Serve, vars, Ingest, ReplaySelect, ReplayCommit, EnqueueNext, ClearRetry, EnqueueOrdered, EnqueueDelivery, RequestDies, PatchEndpoint, MoveDue, ExpireLock

(***************************************************************************)
(* The tables keep their types.                                            *)
(***************************************************************************)
LEMMA DbStep == TypeOK /\ [Next]_vars => TypeDb'
<1> SUFFICES ASSUME TypeOK, [Next]_vars PROVE TypeDb'
  OBVIOUS
<1>0. TypeDb /\ wk \in [Workers -> WorkerState]
  BY DEF TypeOK
<1>1. ASSUME NEW r \in Requests, NEW ev \in Events, Ingest(r, ev)
      PROVE  TypeDb'
  BY <1>0, <1>1
  DEF Ingest, TypeDb, Row, Status
<1>2. ASSUME NEW r \in Requests, ReplayCommit(r)
      PROVE  TypeDb'
  BY <1>0, <1>2
  DEF ReplayCommit, TypeDb, Row, Status
<1>3. ASSUME NEW e \in Endpoints,
             NEW s \in {"active", "paused", "disabled"}, PatchEndpoint(e, s)
      PROVE  TypeDb'
  BY <1>0, <1>3
  DEF PatchEndpoint, TypeDb
<1>4. ASSUME NEW w \in Workers, AutoDisable(w)
      PROVE  TypeDb'
  BY <1>0, <1>4, HandlerFacts, IdentityAssumption
  DEF AutoDisable, TypeDb, At
<1>5. ASSUME NEW w \in Workers, Begin(w)
      PROVE  TypeDb'
  BY <1>0, <1>5, HandlerFacts
  DEF Begin, TypeDb, Row, Status, At
<1>6. ASSUME NEW w \in Workers, Record(w)
      PROVE  TypeDb'
  BY <1>0, <1>6, HandlerFacts
  DEF Record, TypeDb, Row, Status, Settled, At, Outcome
<1> QED
  BY <1>0, <1>1, <1>2, <1>3, <1>4, <1>5, <1>6
  DEF Next, Handle, Serve, vars, TypeDb, db, ReplaySelect, EnqueueNext, ClearRetry, EnqueueOrdered, EnqueueDelivery, RequestDies, MoveDue, Read, Reclaim, Load, AcquireLock, PeekHead, YieldLock, Defer, PassGates, FailGates, Send, Schedule, Refresh, PopHead, ReleaseLock, Ack, Raises, Crash, ExpireLock

(***************************************************************************)
(* The stream, the pending list and the retry set keep their types.        *)
(***************************************************************************)
LEMMA QueueStep == TypeOK /\ [Next]_vars => TypeQueues'
<1> SUFFICES ASSUME TypeOK, [Next]_vars PROVE TypeQueues'
  OBVIOUS
<1>0. TypeQueues /\ wk \in [Workers -> WorkerState] /\ req \in [Requests -> RequestState]
  BY DEF TypeOK
<1>1. ASSUME NEW r \in Requests, ClearRetry(r)
      PROVE  TypeQueues'
  BY <1>0, <1>1
  DEF ClearRetry, TypeQueues
<1>2. ASSUME NEW r \in Requests, EnqueueDelivery(r)
      PROVE  TypeQueues'
  BY <1>0, <1>2
  DEF EnqueueDelivery, TypeQueues, RequestState
<1>3. ASSUME NEW d \in Deliveries, MoveDue(d)
      PROVE  TypeQueues'
  BY <1>0, <1>3
  DEF MoveDue, TypeQueues
<1>4. ASSUME NEW w \in Workers, NEW s \in Slots, Read(w, s)
      PROVE  TypeQueues'
  BY <1>0, <1>4, HeadTailProperties
  DEF Read, TypeQueues
<1>5. ASSUME NEW w \in Workers, Defer(w)
      PROVE  TypeQueues'
  BY <1>0, <1>5, HandlerFacts
  DEF Defer, TypeQueues, At
<1>6. ASSUME NEW w \in Workers, Schedule(w)
      PROVE  TypeQueues'
  BY <1>0, <1>6, HandlerFacts
  DEF Schedule, TypeQueues, At
<1>7. ASSUME NEW w \in Workers, Ack(w)
      PROVE  TypeQueues'
  BY <1>0, <1>7, HandlerFacts
  DEF Ack, TypeQueues, At
<1> QED
  BY <1>0, <1>1, <1>2, <1>3, <1>4, <1>5, <1>6, <1>7
  DEF Next, Handle, Serve, vars, TypeQueues, queues, Ingest, ReplaySelect, ReplayCommit, EnqueueNext, EnqueueOrdered, RequestDies, PatchEndpoint, Reclaim, Load, AcquireLock, PeekHead, YieldLock, PassGates, FailGates, AutoDisable, Begin, Send, Record, Refresh, PopHead, ReleaseLock, Raises, Crash, ExpireLock

(***************************************************************************)
(* The ordered queues and their locks keep their types.                    *)
(***************************************************************************)
LEMMA FifoStep == TypeOK /\ [Next]_vars => TypeFifo'
<1> SUFFICES ASSUME TypeOK, [Next]_vars PROVE TypeFifo'
  OBVIOUS
<1>0. TypeFifo /\ wk \in [Workers -> WorkerState] /\ req \in [Requests -> RequestState]
  BY DEF TypeOK
<1>1. ASSUME NEW r \in Requests, EnqueueOrdered(r)
      PROVE  TypeFifo'
  <2>1. req[r].cur \in Deliveries
    BY <1>0, <1>1 DEF EnqueueOrdered, RequestState
  <2>2. EndpointOf[req[r].cur] \in Endpoints
    BY <2>1, IdentityAssumption
  <2>3. Append(queue[EndpointOf[req[r].cur]], req[r].cur) \in Seq(Deliveries)
    BY <1>0, <2>1, <2>2, AppendProperties DEF TypeFifo
  <2> QED
    BY <1>0, <1>1, <2>2, <2>3 DEF EnqueueOrdered, TypeFifo
<1>2. ASSUME NEW w \in Workers, AcquireLock(w)
      PROVE  TypeFifo'
  BY <1>0, <1>2, HandlerFacts, IdentityAssumption
  DEF AcquireLock, TypeFifo, At
<1>3. ASSUME NEW w \in Workers, YieldLock(w)
      PROVE  TypeFifo'
  BY <1>0, <1>3, HandlerFacts, IdentityAssumption
  DEF YieldLock, TypeFifo, At, FreeLock
<1>4. ASSUME NEW w \in Workers, PopHead(w)
      PROVE  TypeFifo'
  BY <1>0, <1>4, HandlerFacts, IdentityAssumption, LREMFacts
  DEF PopHead, TypeFifo, At
<1>5. ASSUME NEW w \in Workers, ReleaseLock(w)
      PROVE  TypeFifo'
  BY <1>0, <1>5, HandlerFacts, IdentityAssumption
  DEF ReleaseLock, TypeFifo, At, FreeLock
<1>6. ASSUME NEW w \in Workers, Raises(w)
      PROVE  TypeFifo'
  BY <1>0, <1>6
  DEF Raises, TypeFifo, OrphanLocks
<1>7. ASSUME NEW w \in Workers, Crash(w)
      PROVE  TypeFifo'
  BY <1>0, <1>7
  DEF Crash, TypeFifo, OrphanLocks
<1>8. ASSUME NEW e \in Endpoints, ExpireLock(e)
      PROVE  TypeFifo'
  BY <1>0, <1>8
  DEF ExpireLock, TypeFifo
<1> QED
  BY <1>0, <1>1, <1>2, <1>3, <1>4, <1>5, <1>6, <1>7, <1>8
  DEF Next, Handle, Serve, vars, TypeFifo, fifo, Ingest, ReplaySelect, ReplayCommit, EnqueueNext, ClearRetry, EnqueueDelivery, RequestDies, PatchEndpoint, MoveDue, Read, Reclaim, Load, PeekHead, Defer, PassGates, FailGates, AutoDisable, Begin, Send, Record, Schedule, Refresh, Ack

(***************************************************************************)
(* The bounds and the history variables keep their types.                  *)
(***************************************************************************)
LEMMA HistoryStep == TypeOK /\ [Next]_vars => TypeHistory'
<1> SUFFICES ASSUME TypeOK, [Next]_vars PROVE TypeHistory'
  OBVIOUS
<1>0. TypeHistory /\ wk \in [Workers -> WorkerState] /\ req \in [Requests -> RequestState]
  BY DEF TypeOK
<1>1. ASSUME NEW r \in Requests, NEW ev \in Events, Ingest(r, ev)
      PROVE  TypeHistory'
  BY <1>0, <1>1
  DEF Ingest, TypeHistory, history
<1>2. ASSUME NEW r \in Requests, NEW e \in Endpoints,
             NEW chosen \in SUBSET Deliveries, NEW kind \in ReplayKinds,
             ReplaySelect(r, e, chosen, kind)
      PROVE  TypeHistory'
  BY <1>0, <1>2
  DEF ReplaySelect, TypeHistory, history
<1>3. ASSUME NEW r \in Requests, EnqueueOrdered(r)
      PROVE  TypeHistory'
  <2>1. req[r].cur \in Deliveries
    BY <1>0, <1>3 DEF EnqueueOrdered, RequestState
  <2>2. astray' \in SUBSET Deliveries
    BY <1>0, <1>3, <2>1 DEF EnqueueOrdered, TypeHistory
  <2> QED
    BY <1>0, <1>3, <2>1, <2>2 DEF EnqueueOrdered, TypeHistory
<1>4. ASSUME NEW r \in Requests, RequestDies(r)
      PROVE  TypeHistory'
  BY <1>0, <1>4
  DEF RequestDies, TypeHistory, RequestState, RequestRecord
<1>5. ASSUME NEW e \in Endpoints,
             NEW s \in {"active", "paused", "disabled"}, PatchEndpoint(e, s)
      PROVE  TypeHistory'
  BY <1>0, <1>5
  DEF PatchEndpoint, TypeHistory
<1>6. ASSUME NEW w \in Workers, NEW s \in Slots, Reclaim(w, s)
      PROVE  TypeHistory'
  BY <1>0, <1>6
  DEF Reclaim, TypeHistory, history
<1>7. ASSUME NEW w \in Workers, AutoDisable(w)
      PROVE  TypeHistory'
  BY <1>0, <1>7, HandlerFacts, IdentityAssumption
  DEF AutoDisable, TypeHistory, At
<1>8. ASSUME NEW w \in Workers, NEW result \in Results, Send(w, result)
      PROVE  TypeHistory'
  BY <1>0, <1>8, HandlerFacts
  DEF Send, TypeHistory, At
<1>9. ASSUME NEW w \in Workers, Record(w)
      PROVE  TypeHistory'
  BY <1>0, <1>9, HandlerFacts
  DEF Record, TypeHistory, At
<1>10. ASSUME NEW w \in Workers, Raises(w)
      PROVE  TypeHistory'
  BY <1>0, <1>10, HandlerFacts
  DEF Raises, Strays, TypeHistory
<1>11. ASSUME NEW w \in Workers, Crash(w)
      PROVE  TypeHistory'
  BY <1>0, <1>11, HandlerFacts
  DEF Crash, Strays, TypeHistory
<1>12. ASSUME NEW e \in Endpoints, ExpireLock(e)
      PROVE  TypeHistory'
  BY <1>0, <1>12
  DEF ExpireLock, TypeHistory, history
<1> QED
  BY <1>0, <1>1, <1>2, <1>3, <1>4, <1>5, <1>6, <1>7, <1>8, <1>9, <1>10, <1>11, <1>12
  DEF Next, Handle, Serve, vars, TypeHistory, history, ReplayCommit, EnqueueNext, ClearRetry, EnqueueDelivery, MoveDue, Read, Load, AcquireLock, PeekHead, YieldLock, Defer, PassGates, FailGates, Begin, Schedule, Refresh, PopHead, ReleaseLock, Ack

(***************************************************************************)
(* The API requests keep their type.                                       *)
(***************************************************************************)
LEMMA RequestStep == TypeOK /\ [Next]_vars => req' \in [Requests -> RequestState]
<1> SUFFICES ASSUME TypeOK, [Next]_vars PROVE req' \in [Requests -> RequestState]
  OBVIOUS
<1>0. req \in [Requests -> RequestState]
  BY DEF TypeOK
<1>1. ASSUME NEW r \in Requests, NEW ev \in Events, Ingest(r, ev)
      PROVE  req' \in [Requests -> RequestState]
  BY <1>0, <1>1, IdentityAssumption
  DEF Ingest, RequestState, RequestRecord
<1>2. ASSUME NEW r \in Requests, NEW e \in Endpoints,
             NEW chosen \in SUBSET Deliveries, NEW kind \in ReplayKinds,
             ReplaySelect(r, e, chosen, kind)
      PROVE  req' \in [Requests -> RequestState]
  BY <1>0, <1>2, IdentityAssumption
  DEF ReplaySelect, RequestState, RequestRecord, ReplayKinds
<1>3. ASSUME NEW r \in Requests, ReplayCommit(r)
      PROVE  req' \in [Requests -> RequestState]
  BY <1>0, <1>3
  DEF ReplayCommit, RequestState, RequestRecord
<1>4. ASSUME NEW r \in Requests, EnqueueNext(r)
      PROVE  req' \in [Requests -> RequestState]
  <2>1. CASE req' = [req EXCEPT ![r] = NoRequest]
    BY <1>0, <2>1, IdentityAssumption
    DEF RequestState, RequestRecord, NoRequest
  <2>2. ASSUME NEW d \in req[r].todo,
               req' = [req EXCEPT
                          ![r].pc = FirstStep(req[r].kind),
                          ![r].cur = d,
                          ![r].todo = @ \ {d}]
        PROVE  req' \in [Requests -> RequestState]
    <3>1. d \in Deliveries /\ req[r] \in RequestRecord
      BY <1>0 DEF RequestState, RequestRecord
    <3>2. req'[r] = [req[r] EXCEPT
                        !.pc = FirstStep(req[r].kind),
                        !.cur = d, !.todo = @ \ {d}]
      BY <1>0, <2>2
    <3>3. FirstStep(req[r].kind) \in {"clear", "push", "xadd"}
      BY <3>1 DEF RequestRecord, FirstStep, ReplayKinds
    <3>4. req'[r] \in RequestState
      BY <3>1, <3>2, <3>3 DEF RequestState, RequestRecord
    <3> QED
      BY <1>0, <2>2, <3>4
  <2> QED
    BY <1>4, <2>1, <2>2 DEF EnqueueNext
<1>5. ASSUME NEW r \in Requests, ClearRetry(r)
      PROVE  req' \in [Requests -> RequestState]
  BY <1>0, <1>5
  DEF ClearRetry, RequestState, RequestRecord
<1>6. ASSUME NEW r \in Requests, EnqueueOrdered(r)
      PROVE  req' \in [Requests -> RequestState]
  BY <1>0, <1>6
  DEF EnqueueOrdered, RequestState, RequestRecord
<1>7. ASSUME NEW r \in Requests, EnqueueDelivery(r)
      PROVE  req' \in [Requests -> RequestState]
  BY <1>0, <1>7, IdentityAssumption
  DEF EnqueueDelivery, RequestState, RequestRecord
<1>8. ASSUME NEW r \in Requests, RequestDies(r)
      PROVE  req' \in [Requests -> RequestState]
  BY <1>0, <1>8, IdentityAssumption
  DEF RequestDies, RequestState, RequestRecord, NoRequest
<1> QED
  BY <1>0, <1>1, <1>2, <1>3, <1>4, <1>5, <1>6, <1>7, <1>8
  DEF Next, Handle, Serve, vars, RequestState, RequestRecord, PatchEndpoint, MoveDue, Read, Reclaim, Load, AcquireLock, PeekHead, YieldLock, Defer, PassGates, FailGates, AutoDisable, Begin, Send, Record, Schedule, Refresh, PopHead, ReleaseLock, Ack, Raises, Crash, ExpireLock

(***************************************************************************)
(* TypeCorrect: every reachable state of the pipeline is well-typed.  In   *)
(* particular a worker carries nothing of one entry over to the next, and  *)
(* never handles an entry it does not know (worker.py, handle_message).    *)
(***************************************************************************)
THEOREM TypeCorrect == Spec => []TypeOK
<1>1. Init => TypeOK
  BY IdleType, IdentityAssumption
  DEF Init, TypeOK, TypeDb, TypeQueues, TypeFifo, TypeHistory, NoRow, Row,
      Status, RequestState, RequestRecord, NoRequest, NoneSpent
<1>2. TypeOK /\ [Next]_vars => TypeOK'
  BY DbStep, QueueStep, FifoStep, HistoryStep, WorkerStep, RequestStep
  DEF TypeOK
<1> QED
  BY <1>1, <1>2, PTL DEF Spec

-----------------------------------------------------------------------------
(***************************************************************************)
(* Mutual exclusion.  A worker that has its token holds the lock, and every*)
(* step from peek_head to the finally block on an ordered endpoint is made *)
(* with the token.                                                         *)
(***************************************************************************)
AfterLock == {"peek", "yield", "gates", "begin", "send", "record", "schedule",
              "refresh", "pop"}

LockInv ==
    \A w \in Workers :
        /\ wk[w].token => /\ wk[w].pc # "idle"
                          /\ lock[EndpointOf[wk[w].cur]] = w
        /\ wk[w].pc \in AfterLock /\ IsOrdered(wk[w].cur) => wk[w].token

(***************************************************************************)
(* The lock discipline is preserved, as long as a lock does not expire     *)
(* under its holder.                                                       *)
(***************************************************************************)
LEMMA LockStep ==
    ASSUME TypeOK, LockInv, [Next]_vars, spent'.expiries = 0
    PROVE  LockInv'
<1> USE IdentityAssumption
<1>0. /\ wk \in [Workers -> WorkerState]
      /\ lock \in [Endpoints -> Workers \cup {None, Orphan}]
  BY DEF TypeOK, TypeFifo
<1>1. ASSUME NEW w \in Workers, NEW s \in Slots, Read(w, s)
      PROVE  LockInv'
  BY <1>0, <1>1, HandlerFacts
  DEF Read, At, Become, Start, Idle, AfterLock, fifo, LockInv, IsOrdered
<1>2. ASSUME NEW w \in Workers, NEW s \in Slots, Reclaim(w, s)
      PROVE  LockInv'
  BY <1>0, <1>2, HandlerFacts
  DEF Reclaim, At, Become, Start, Idle, AfterLock, fifo, LockInv, IsOrdered
<1>3. ASSUME NEW w \in Workers, Load(w)
      PROVE  LockInv'
  BY <1>0, <1>3, HandlerFacts
  DEF Load, At, Become, AfterLock, fifo, LockInv, IsOrdered
<1>4. ASSUME NEW w \in Workers, AcquireLock(w)
      PROVE  LockInv'
  <2> DEFINE e == EndpointOf[wk[w].cur]
  <2>1. /\ wk[w] \in WorkerRecord /\ wk[w].pc # "idle" /\ wk[w].cur \in Deliveries
        /\ e \in Endpoints
    BY <1>0, <1>4, HandlerFacts DEF AcquireLock, At, Busy
  <2>2. CASE lock[e] = None
    <3>1. /\ wk' = [wk EXCEPT ![w] = [wk[w] EXCEPT !.pc = "peek", !.token = TRUE]]
          /\ lock' = [lock EXCEPT ![e] = w]
      BY <1>4, <2>2 DEF AcquireLock, Become
    <3>2. \A v \in Workers : wk[v].token => EndpointOf[wk[v].cur] # e
      BY <2>2 DEF LockInv
    <3>3. /\ wk'[w].pc = "peek" /\ wk'[w].cur = wk[w].cur /\ wk'[w].token
          /\ lock'[e] = w
      BY <1>0, <2>1, <3>1 DEF WorkerRecord
    <3>4. ASSUME NEW v \in Workers, v # w
          PROVE  /\ wk'[v] = wk[v]
                 /\ wk[v].token => lock'[EndpointOf[wk[v].cur]] = lock[EndpointOf[wk[v].cur]]
      BY <1>0, <3>1, <3>2, <3>4, HandlerFacts DEF LockInv
    <3> QED  BY <3>3, <3>4 DEF LockInv, AfterLock, IsOrdered
  <2>3. CASE lock[e] # None
    BY <1>0, <1>4, <2>1, <2>3
    DEF AcquireLock, At, Become, AfterLock, LockInv, IsOrdered, WorkerRecord, Goto
  <2> QED  BY <2>2, <2>3
<1>5. ASSUME NEW w \in Workers, PeekHead(w)
      PROVE  LockInv'
  BY <1>0, <1>5, HandlerFacts
  DEF PeekHead, At, Become, AfterLock, Goto, fifo, LockInv, IsOrdered
<1>6. ASSUME NEW w \in Workers, YieldLock(w)
      PROVE  LockInv'
  BY <1>0, <1>6, HandlerFacts
  DEF YieldLock, At, Become, AfterLock, FreeLock, fifo, LockInv, IsOrdered
<1>7. ASSUME NEW w \in Workers, Defer(w)
      PROVE  LockInv'
  BY <1>0, <1>7, HandlerFacts
  DEF Defer, At, Become, AfterLock, Goto, Leave, fifo, LockInv, IsOrdered
<1>8. ASSUME NEW w \in Workers, PassGates(w)
      PROVE  LockInv'
  BY <1>0, <1>8, HandlerFacts
  DEF PassGates, At, Become, AfterLock, Goto, fifo, LockInv, IsOrdered
<1>9. ASSUME NEW w \in Workers, FailGates(w)
      PROVE  LockInv'
  BY <1>0, <1>9, HandlerFacts
  DEF FailGates, At, Become, AfterLock, Goto, fifo, LockInv, IsOrdered
<1>10. ASSUME NEW w \in Workers, AutoDisable(w)
      PROVE  LockInv'
  BY <1>0, <1>10, HandlerFacts
  DEF AutoDisable, At, Become, AfterLock, Goto, fifo, LockInv, IsOrdered
<1>11. ASSUME NEW w \in Workers, Begin(w)
      PROVE  LockInv'
  BY <1>0, <1>11, HandlerFacts
  DEF Begin, At, Become, AfterLock, fifo, LockInv, IsOrdered
<1>12. ASSUME NEW w \in Workers, NEW result \in Results, Send(w, result)
      PROVE  LockInv'
  BY <1>0, <1>12, HandlerFacts
  DEF Send, At, Become, AfterLock, fifo, LockInv, IsOrdered
<1>13. ASSUME NEW w \in Workers, Record(w)
      PROVE  LockInv'
  BY <1>0, <1>13, HandlerFacts
  DEF Record, At, Become, AfterLock, fifo, LockInv, IsOrdered
<1>14. ASSUME NEW w \in Workers, Schedule(w)
      PROVE  LockInv'
  BY <1>0, <1>14, HandlerFacts
  DEF Schedule, At, Become, AfterLock, Goto, fifo, LockInv, IsOrdered
<1>15. ASSUME NEW w \in Workers, Refresh(w)
      PROVE  LockInv'
  BY <1>0, <1>15, HandlerFacts
  DEF Refresh, At, Become, AfterLock, Leave, fifo, LockInv, IsOrdered
<1>16. ASSUME NEW w \in Workers, PopHead(w)
      PROVE  LockInv'
  BY <1>0, <1>16, HandlerFacts
  DEF PopHead, At, Become, AfterLock, Goto, Leave, fifo, LockInv, IsOrdered
<1>17. ASSUME NEW w \in Workers, ReleaseLock(w)
      PROVE  LockInv'
  BY <1>0, <1>17, HandlerFacts
  DEF ReleaseLock, At, Become, AfterLock, FreeLock, Idle, fifo, LockInv, IsOrdered
<1>18. ASSUME NEW w \in Workers, Ack(w)
      PROVE  LockInv'
  BY <1>0, <1>18, HandlerFacts
  DEF Ack, At, Become, Idle, AfterLock, fifo, LockInv, IsOrdered
<1>19. ASSUME NEW w \in Workers, Raises(w)
      PROVE  LockInv'
  <2>1. CASE wk[w].token /\ wk[w].pc \in InTry \cup {"defer"}
    <3>1. /\ wk' = [wk EXCEPT ![w] = [wk[w] EXCEPT !.pc = "release", !.ack = FALSE]]
          /\ lock' = lock
      BY <1>19, <2>1 DEF Raises, Become
    <3>2. wk[w] \in WorkerRecord
      BY <1>0, <2>1, HandlerFacts DEF InTry, Busy
    <3>3. /\ wk'[w].pc = "release" /\ wk'[w].cur = wk[w].cur
          /\ wk'[w].token = wk[w].token
      BY <1>0, <3>1, <3>2 DEF WorkerRecord
    <3>4. \A v \in Workers : v # w => wk'[v] = wk[v]
      BY <1>0, <3>1
    <3> QED  BY <3>1, <3>3, <3>4 DEF LockInv, AfterLock, IsOrdered
  <2>2. CASE ~(wk[w].token /\ wk[w].pc \in InTry \cup {"defer"})
    <3>1. /\ wk' = [wk EXCEPT ![w] = Idle]
          /\ lock' = [f \in Endpoints |-> IF lock[f] = w THEN Orphan ELSE lock[f]]
      BY <1>19, <2>2 DEF Raises, Become, OrphanLocks
    <3> QED  BY <1>0, <3>1, HandlerFacts DEF Idle, AfterLock, LockInv, IsOrdered
  <2> QED  BY <2>1, <2>2
<1>20. ASSUME NEW w \in Workers, Crash(w)
      PROVE  LockInv'
  BY <1>0, <1>20, HandlerFacts
  DEF Crash, At, Become, OrphanLocks, Idle, AfterLock, fifo, LockInv, IsOrdered
<1>21. ASSUME NEW e \in Endpoints, ExpireLock(e)
      PROVE  LockInv'
  <2>1. lock[e] = Orphan
    BY <1>21 DEF ExpireLock, TypeOK, TypeHistory
  <2> QED
    BY <1>0, <1>21, <2>1, HandlerFacts DEF ExpireLock, LockInv, IsOrdered
<1> QED
  BY <1>1, <1>2, <1>3, <1>4, <1>5, <1>6, <1>7, <1>8, <1>9, <1>10, <1>11, <1>12, <1>13, <1>14, <1>15, <1>16, <1>17, <1>18, <1>19, <1>20, <1>21
  DEF Next, Handle, Serve, vars, LockInv, IsOrdered, fifo, Ingest, ReplaySelect, ReplayCommit, EnqueueNext, ClearRetry, EnqueueOrdered, EnqueueDelivery, RequestDies, PatchEndpoint, MoveDue

\* An expiry under a live holder is not forgotten.
LEMMA ExpiriesOnlyGrow ==
    ASSUME TypeOK, [Next]_vars, spent'.expiries = 0
    PROVE  spent.expiries = 0
<1>0. spent \in [faults : Nat, expiries : Nat, steals : Nat, lost : Nat,
                 replays : Nat, patches : Nat]
  BY DEF TypeOK, TypeHistory
<1>1. ASSUME NEW r \in Requests, NEW e \in Endpoints,
             NEW chosen \in SUBSET Deliveries, NEW kind \in ReplayKinds,
             ReplaySelect(r, e, chosen, kind)
      PROVE  spent.expiries = 0
  BY <1>0, <1>1 DEF ReplaySelect
<1>2. ASSUME NEW r \in Requests, RequestDies(r)
      PROVE  spent.expiries = 0
  BY <1>0, <1>2 DEF RequestDies
<1>3. ASSUME NEW e \in Endpoints,
             NEW s \in {"active", "paused", "disabled"}, PatchEndpoint(e, s)
      PROVE  spent.expiries = 0
  BY <1>0, <1>3 DEF PatchEndpoint
<1>4. ASSUME NEW w \in Workers, NEW s \in Slots, Reclaim(w, s)
      PROVE  spent.expiries = 0
  BY <1>0, <1>4 DEF Reclaim
<1>5. ASSUME NEW w \in Workers, Raises(w)
      PROVE  spent.expiries = 0
  BY <1>0, <1>5 DEF Raises
<1>6. ASSUME NEW w \in Workers, Crash(w)
      PROVE  spent.expiries = 0
  BY <1>0, <1>6 DEF Crash
<1>7. ASSUME NEW e \in Endpoints, ExpireLock(e)
      PROVE  spent.expiries = 0
  BY <1>0, <1>7 DEF ExpireLock
<1>8. ASSUME NEW w \in Workers, AutoDisable(w)
      PROVE  spent.expiries = 0
  BY <1>0, <1>8 DEF AutoDisable
<1> QED
  BY <1>1, <1>2, <1>3, <1>4, <1>5, <1>6, <1>7, <1>8
  DEF Next, Handle, Serve, vars, Ingest, ReplayCommit, EnqueueNext, ClearRetry, EnqueueOrdered, EnqueueDelivery, MoveDue, Read, Load, AcquireLock, PeekHead, YieldLock, Defer, PassGates, FailGates, Begin, Send, Record, Schedule, Refresh, PopHead, ReleaseLock, Ack

(***************************************************************************)
(* OneInFlightCorrect: on an ordered endpoint at most one POST is          *)
(* outstanding, for any number of workers and any number of crashes and    *)
(* reclaimed entries, until the TTL of a lock runs out under its holder.   *)
(***************************************************************************)
THEOREM OneInFlightCorrect ==
    Spec => []OneInFlight
<1> DEFINE Inv == spent.expiries = 0 => LockInv
<1>1. Init => Inv
  BY DEF Init, LockInv, Idle, AfterLock
<1>2. TypeOK /\ Inv /\ [Next]_vars => Inv'
  <2> SUFFICES ASSUME TypeOK, Inv, [Next]_vars, spent'.expiries = 0
               PROVE  LockInv'
    OBVIOUS
  <2>1. spent.expiries = 0
    BY ExpiriesOnlyGrow
  <2> QED  BY <2>1, LockStep
<1>3. Inv => OneInFlight
  <2> SUFFICES ASSUME LockInv, NEW v \in Workers, NEW w \in Workers,
                      wk[v].pc = "send", wk[w].pc = "send", IsOrdered(wk[v].cur),
                      EndpointOf[wk[v].cur] = EndpointOf[wk[w].cur]
               PROVE  v = w
    BY DEF OneInFlight, At
  <2>1. wk[v].token /\ wk[w].token
    BY DEF LockInv, AfterLock, IsOrdered
  <2> QED  BY <2>1 DEF LockInv
<1> QED
  BY <1>1, <1>2, <1>3, TypeCorrect, PTL DEF Spec

-----------------------------------------------------------------------------
\* An ordered endpoint is served in enqueue order, also when its lock expires
\* under a live holder and entries are stolen: the order rests on the queue
\* alone, the lock only keeps the POSTs apart.

(***************************************************************************)
(* The queue discipline.  A delivery that was pushed and has never settled *)
(* is still queued, behind nothing that was pushed after it; and a handler *)
(* that got past peek_head has only settled deliveries ahead of it.        *)
(***************************************************************************)
Queued(c, n) ==
    \E j \in 1..Len(queue[EndpointOf[c]]) :
        j <= n /\ queue[EndpointOf[c]][j] = c

\* Whoever has to do with an ordered delivery has it from an RPUSH, except
\* for the API request that is about to make it.
Entered(d) == IsOrdered(d) => d \in pushed

EnteredQueues ==
    /\ \A i \in 1..Len(stream) : Entered(stream[i])
    /\ \A s \in Slots : pel[s] # None => Entered(pel[s])
    /\ \A d \in zset : Entered(d)

EnteredHands ==
    /\ \A w \in Workers : wk[w].pc # "idle" => Entered(wk[w].cur)
    /\ \A r \in Requests :
          /\ req[r].pc = "xadd" => Entered(req[r].cur)
          /\ req[r].kind \in ReplayKinds => \A d \in req[r].todo : Entered(d)

EnteredRows ==
    /\ \A d \in Deliveries : row[d].status \in Settled => Entered(d)
    /\ \A d \in posted : Entered(d)

Known == EnteredQueues /\ EnteredHands /\ EnteredRows

AheadInv ==
    \A d \in Deliveries : \A c \in ahead[d] :
        IsOrdered(d) /\ c \in pushed /\ EndpointOf[c] = EndpointOf[d]

QueueInv ==
    /\ \A e \in Endpoints : \A i \in 1..Len(queue[e]) :
          queue[e][i] \in pushed /\ EndpointOf[queue[e][i]] = e
    /\ \A c \in pushed : c \in settledOnce \/ Queued(c, Len(queue[EndpointOf[c]]))
    /\ \A e \in Endpoints : \A i \in 1..Len(queue[e]) :
          \A c \in ahead[queue[e][i]] \ settledOnce : Queued(c, i - 1)

Turn == {"gates", "begin", "send", "record"}

TurnInv ==
    /\ \A d \in Deliveries : row[d].status \in Settled => d \in settledOnce
    /\ \A w \in Workers :
          /\ wk[w].pc = "pop" => wk[w].cur \in settledOnce
          /\ wk[w].pc \in Turn
                => ahead[wk[w].cur] \subseteq settledOnce

OrderInv == Known /\ AheadInv /\ QueueInv /\ TurnInv /\ OrderedFIFO

-----------------------------------------------------------------------------
(***************************************************************************)
(* Nothing is ever un-pushed or un-settled in the history.                 *)
(***************************************************************************)
LEMMA Grows ==
    ASSUME [Next]_vars
    PROVE  pushed \subseteq pushed' /\ settledOnce \subseteq settledOnce'
<1>1. ASSUME NEW r \in Requests, Serve(r)
      PROVE  pushed \subseteq pushed' /\ settledOnce \subseteq settledOnce'
  BY <1>1
  DEF Serve, ReplayCommit, EnqueueNext, ClearRetry, EnqueueOrdered,
      EnqueueDelivery, history
<1>2. ASSUME NEW w \in Workers, Handle(w)
      PROVE  pushed \subseteq pushed' /\ settledOnce \subseteq settledOnce'
  BY <1>2
  DEF Handle, Load, AcquireLock, PeekHead, YieldLock, Defer, PassGates, FailGates,
      AutoDisable, Begin, Send, Record, Schedule, Refresh, PopHead, ReleaseLock,
      Ack, history
<1> QED
  BY <1>1, <1>2
  DEF Next, vars, Ingest, ReplaySelect, RequestDies, PatchEndpoint, MoveDue, Read,
      Reclaim, Raises, Crash, ExpireLock, history

\* What was pushed stays pushed.
LEMMA EnteredLater ==
    ASSUME pushed \subseteq pushed', NEW d, Entered(d)
    PROVE  Entered(d)'
  BY DEF Entered, IsOrdered

(***************************************************************************)
(* What a step does to a worker: it idles, starts on an entry that was in  *)
(* the stream or in the pending list, or goes on with its delivery.  It    *)
(* comes to pop_head only with a settled row, and to its turn only past    *)
(* peek_head or without an ordered queue.                                  *)
(***************************************************************************)
AtHead(w) ==
    LET q == queue[EndpointOf[wk[w].cur]]
    IN  q = <<>> \/ Head(q) = wk[w].cur

Moves(w) ==
    \/ wk'[w] = wk[w]
    \/ wk'[w].pc = "idle"
    \/ /\ wk'[w].pc = "load"
       /\ \/ stream # <<>> /\ wk'[w].cur = Head(stream)
          \/ \E s \in Slots : pel[s] # None /\ wk'[w].cur = pel[s]
    \/ /\ wk[w].pc # "idle" /\ wk'[w].cur = wk[w].cur
       /\ wk'[w].pc = "pop" => row[wk[w].cur].status \in Settled
       /\ wk'[w].pc \in Turn
             => wk[w].pc \in Turn \/ ~IsOrdered(wk[w].cur) \/ AtHead(w)

\* Every worker moves so in every step.
LEMMA WorkerMoves ==
    ASSUME TypeOK, [Next]_vars, NEW v \in Workers
    PROVE  Moves(v)
<1>0. wk \in [Workers -> WorkerState]
  BY DEF TypeOK
<1>1. CASE wk' = wk
  BY <1>1 DEF Moves
<1>3. ASSUME NEW w \in Workers, NEW s \in Slots, Read(w, s) \/ Reclaim(w, s)
      PROVE  Moves(v)
  BY <1>0, <1>3 DEF Read, Reclaim, Start, Become, Idle, Moves
<1>4. ASSUME NEW w \in Workers, Handle(w) PROVE Moves(v)
  <2>0. wk[w].pc # "idle" => wk[w] \in WorkerRecord
    BY <1>0, HandlerFacts
  <2>1. CASE Load(w)
    BY <1>0, <2>0, <2>1 DEF Load, At, Become, WorkerRecord, Moves, Turn
  <2>2. CASE AcquireLock(w)
    <3>1. CASE Goto(w, "defer")
      BY <1>0, <2>0, <2>2, <3>1
      DEF AcquireLock, At, Goto, Become, WorkerRecord, Moves, Turn
    <3>2. CASE Become(w, [wk[w] EXCEPT !.pc = "peek", !.token = TRUE])
      BY <1>0, <2>0, <2>2, <3>2 DEF AcquireLock, At, Become, WorkerRecord, Moves, Turn
    <3> QED  BY <2>2, <3>1, <3>2 DEF AcquireLock
  <2>3. CASE PeekHead(w)
    BY <1>0, <2>0, <2>3
    DEF PeekHead, At, Goto, Become, WorkerRecord, Moves, Turn, AtHead
  <2>4. CASE YieldLock(w)
    BY <1>0, <2>0, <2>4 DEF YieldLock, At, Become, WorkerRecord, Moves, Turn
  <2>5. CASE Defer(w) \/ Schedule(w) \/ PopHead(w)
    BY <1>0, <2>0, <2>5
    DEF Defer, Schedule, PopHead, At, Goto, Leave, Become, WorkerRecord, Moves, Turn
  <2>6. CASE PassGates(w) \/ FailGates(w) \/ AutoDisable(w)
    BY <1>0, <2>0, <2>6
    DEF PassGates, FailGates, AutoDisable, At, Goto, Become, WorkerRecord, Moves, Turn
  <2>7. CASE Begin(w)
    BY <1>0, <2>0, <2>7 DEF Begin, At, Become, WorkerRecord, Moves, Turn
  <2>8. CASE \E result \in Results : Send(w, result)
    BY <1>0, <2>0, <2>8 DEF Send, At, Become, WorkerRecord, Moves, Turn
  <2>9. CASE Record(w)
    BY <1>0, <2>0, <2>9 DEF Record, At, Become, WorkerRecord, Moves, Turn
  <2>10. CASE Refresh(w)
    BY <1>0, <2>0, <2>10 DEF Refresh, At, Leave, Become, WorkerRecord, Moves, Turn
  <2>11. CASE ReleaseLock(w)
    BY <1>0, <2>0, <2>11 DEF ReleaseLock, At, Become, WorkerRecord, Moves, Turn, Idle
  <2>12. CASE Ack(w)
    BY <1>0, <2>0, <2>12 DEF Ack, At, Become, Moves, Idle
  <2> QED
    BY <1>4, <2>1, <2>2, <2>3, <2>4, <2>5, <2>6, <2>7, <2>8, <2>9, <2>10, <2>11, <2>12
    DEF Handle
<1>5. ASSUME NEW w \in Workers, Raises(w) PROVE Moves(v)
  <2>0. wk[w] \in WorkerRecord
    BY <1>0, <1>5, HandlerFacts DEF Raises
  <2>1. CASE Become(w, Idle)
    BY <1>0, <2>1 DEF Become, Moves, Idle
  <2>2. CASE Become(w, [wk[w] EXCEPT !.pc = "release", !.ack = FALSE])
    BY <1>0, <1>5, <2>0, <2>2 DEF Raises, Become, WorkerRecord, Moves, Turn
  <2> QED  BY <1>5, <2>1, <2>2 DEF Raises
<1>6. ASSUME NEW w \in Workers, Crash(w) PROVE Moves(v)
  BY <1>0, <1>6 DEF Crash, Become, Moves, Idle
<1> QED
  BY <1>1, <1>3, <1>4, <1>5, <1>6
  DEF Next, vars, Serve, Ingest, ReplaySelect, ReplayCommit, EnqueueNext, ClearRetry,
      EnqueueOrdered, EnqueueDelivery, RequestDies, PatchEndpoint, MoveDue, ExpireLock

-----------------------------------------------------------------------------
(***************************************************************************)
(* A delivery's place in line is set once, by its first RPUSH.             *)
(***************************************************************************)
LEMMA AheadKept ==
    ASSUME TypeOK, [Next]_vars, NEW d \in Deliveries, Entered(d)
    PROVE  ahead'[d] = ahead[d]
<1>0. ahead \in [Deliveries -> SUBSET Deliveries]
  BY DEF TypeOK, TypeHistory
<1>1. ASSUME NEW r \in Requests, EnqueueOrdered(r)
      PROVE  ahead'[d] = ahead[d]
  BY <1>0, <1>1 DEF EnqueueOrdered, Entered, IsOrdered
<1>2. CASE ahead' = ahead
  BY <1>2
<1> QED
  BY <1>1, <1>2
  DEF Next, vars, Serve, Ingest, ReplaySelect, ReplayCommit, EnqueueNext, ClearRetry,
      EnqueueDelivery, RequestDies, PatchEndpoint, MoveDue, Read, Reclaim, Handle,
      Load, AcquireLock, PeekHead, YieldLock, Defer, PassGates, FailGates, AutoDisable,
      Begin, Send, Record, Schedule, Refresh, PopHead, ReleaseLock, Ack, Raises,
      Crash, ExpireLock, history

\* Only deliveries pushed earlier to the same endpoint are ahead.
LEMMA AheadStep ==
    ASSUME TypeOK, [Next]_vars, AheadInv
    PROVE  AheadInv'
<1>0. ahead \in [Deliveries -> SUBSET Deliveries]
  BY DEF TypeOK, TypeHistory
<1>1. ASSUME NEW r \in Requests, EnqueueOrdered(r)
      PROVE  AheadInv'
  BY <1>0, <1>1 DEF EnqueueOrdered, AheadInv, IsOrdered
<1>2. CASE ahead' = ahead
  BY <1>2, Grows DEF AheadInv, IsOrdered
<1> QED
  BY <1>1, <1>2
  DEF Next, vars, Serve, Ingest, ReplaySelect, ReplayCommit, EnqueueNext, ClearRetry,
      EnqueueDelivery, RequestDies, PatchEndpoint, MoveDue, Read, Reclaim, Handle,
      Load, AcquireLock, PeekHead, YieldLock, Defer, PassGates, FailGates, AutoDisable,
      Begin, Send, Record, Schedule, Refresh, PopHead, ReleaseLock, Ack, Raises,
      Crash, ExpireLock, history

(***************************************************************************)
(* The three queues only ever get deliveries that were pushed.             *)
(***************************************************************************)
LEMMA EnteredQueuesStep ==
    ASSUME TypeOK, [Next]_vars, Known
    PROVE  EnteredQueues'
<1> USE DEF Known
<1>0. /\ stream \in Seq(Deliveries) /\ pel \in [Slots -> Deliveries \cup {None}]
      /\ zset \in SUBSET Deliveries
      /\ wk \in [Workers -> WorkerState]
  BY DEF TypeOK, TypeQueues
<1>1. \A d : Entered(d) => Entered(d)'
  BY Grows, EnteredLater
<1> DEFINE S == \A i \in 1..Len(stream') : Entered(stream'[i])
           P == \A s \in Slots : pel'[s] # None => Entered(pel'[s])
           Z == \A d \in zset' : Entered(d)
<1>2. ASSUME NEW d \in Deliveries, Entered(d), stream' = Append(stream, d)
      PROVE  S
  BY <1>0, <1>2 DEF EnteredQueues
<1>3. ASSUME NEW r \in Requests, EnqueueDelivery(r) PROVE S /\ P /\ Z
  <2>1. req[r].cur \in Deliveries /\ Entered(req[r].cur)
    BY <1>3 DEF TypeOK, RequestState, EnteredHands, EnqueueDelivery
  <2> QED  BY <1>2, <1>3, <2>1 DEF EnqueueDelivery, EnteredQueues
<1>4. ASSUME NEW d \in Deliveries, MoveDue(d) PROVE S /\ P /\ Z
  BY <1>2, <1>4 DEF MoveDue, EnteredQueues
<1>5. ASSUME NEW w \in Workers, NEW s \in Slots, Read(w, s) PROVE S /\ P /\ Z
  <2>1. Entered(Head(stream))
    BY <1>0, <1>5 DEF Read, EnteredQueues
  <2>2. S
    BY <1>0, <1>5 DEF Read, EnteredQueues
  <2>3. P
    BY <1>0, <1>5, <2>1 DEF Read, EnteredQueues
  <2> QED  BY <1>5, <2>2, <2>3 DEF Read, EnteredQueues
<1>6. ASSUME NEW w \in Workers, Defer(w) \/ Schedule(w) PROVE S /\ P /\ Z
  <2>1. Entered(wk[w].cur)
    BY <1>6 DEF Defer, Schedule, At, EnteredHands
  <2> QED  BY <1>6, <2>1 DEF Defer, Schedule, EnteredQueues
<1>7. ASSUME NEW w \in Workers, Ack(w) PROVE S /\ P /\ Z
  BY <1>0, <1>7 DEF Ack, EnteredQueues
<1>8. ASSUME NEW r \in Requests, ClearRetry(r) PROVE S /\ P /\ Z
  BY <1>8 DEF ClearRetry, EnteredQueues
<1>9. ASSUME UNCHANGED queues PROVE S /\ P /\ Z
  BY <1>9 DEF queues, EnteredQueues
<1>10. S /\ P /\ Z
  <2> HIDE DEF S, P, Z
  <2> QED
  BY <1>3, <1>4, <1>5, <1>6, <1>7, <1>8, <1>9
  DEF Next, vars, queues, Serve, Ingest, ReplaySelect, ReplayCommit, EnqueueNext,
      EnqueueOrdered, RequestDies, PatchEndpoint, Reclaim, Handle, Load, AcquireLock,
      PeekHead, YieldLock, PassGates, FailGates, AutoDisable, Begin, Send, Record,
      Refresh, PopHead, ReleaseLock, Raises, Crash, ExpireLock
<1> QED  BY <1>1, <1>10 DEF EnteredQueues

(***************************************************************************)
(* Workers and API requests only handle deliveries that were pushed, until *)
(* the request that ingests them has made its RPUSH.                       *)
(***************************************************************************)
LEMMA EnteredHandsStep ==
    ASSUME TypeOK, [Next]_vars, Known
    PROVE  EnteredHands'
<1> USE DEF Known
<1>0. /\ stream \in Seq(Deliveries)
      /\ req \in [Requests -> RequestState]
  BY DEF TypeOK, TypeQueues
<1> DEFINE Later(d) == IsOrdered(d) => d \in pushed'
<1>1. \A d : Entered(d) => Later(d)
  BY Grows DEF Entered
<1>2. ASSUME NEW w \in Workers, wk'[w].pc # "idle" PROVE Entered(wk'[w].cur)
  <2>1. Moves(w)
    BY WorkerMoves
  <2>2. stream # <<>> => Entered(Head(stream))
    BY <1>0 DEF EnteredQueues
  <2> QED  BY <1>2, <2>1, <2>2 DEF Moves, EnteredHands, EnteredQueues
<1> HIDE DEF Later
<1> DEFINE R == \A r \in Requests :
                   /\ req'[r].pc = "xadd" => Later(req'[r].cur)
                   /\ req'[r].kind \in ReplayKinds => \A d \in req'[r].todo : Later(d)
<1>3. ASSUME NEW r \in Requests, NEW ev \in Events, Ingest(r, ev) PROVE R
  BY <1>0, <1>1, <1>3 DEF Ingest, EnteredHands, ReplayKinds
<1>4. ASSUME NEW r \in Requests, NEW e \in Endpoints, NEW chosen \in SUBSET Deliveries,
             NEW kind \in ReplayKinds, ReplaySelect(r, e, chosen, kind)
      PROVE  R
  <2>1. \A d \in chosen : Entered(d)
    BY <1>4 DEF ReplaySelect, EnteredRows, Settled
  <2> QED  BY <1>0, <1>1, <1>4, <2>1 DEF ReplaySelect, EnteredHands
<1>5. ASSUME NEW r \in Requests, ReplayCommit(r) PROVE R
  <2>1. req' = [req EXCEPT ![r] = [req[r] EXCEPT !.pc = "next"]]
    BY <1>5 DEF ReplayCommit
  <2> QED  BY <1>0, <1>1, <2>1 DEF EnteredHands, RequestState, RequestRecord
<1>6. ASSUME NEW r \in Requests, EnqueueNext(r) PROVE R
  <2>0. req[r] \in RequestRecord
    BY <1>0 DEF RequestState
  <2>1. CASE req' = [req EXCEPT ![r] = NoRequest]
    BY <1>0, <1>1, <2>1 DEF EnteredHands, NoRequest, ReplayKinds
  <2>2. ASSUME NEW d \in req[r].todo,
               req' = [req EXCEPT ![r].pc = FirstStep(req[r].kind), ![r].cur = d,
                                  ![r].todo = @ \ {d}]
        PROVE  R
    <3>1. /\ req'[r].pc = FirstStep(req[r].kind) /\ req'[r].cur = d
          /\ req'[r].todo = req[r].todo \ {d} /\ req'[r].kind = req[r].kind
      BY <1>0, <2>0, <2>2 DEF RequestRecord
    <3>2. \A q \in Requests : q # r => req'[q] = req[q]
      BY <1>0, <2>2
    <3>3. FirstStep(req[r].kind) = "xadd" => req[r].kind \in ReplayKinds
      BY <2>0 DEF RequestRecord, FirstStep, ReplayKinds
    <3> QED  BY <1>1, <2>2, <3>1, <3>2, <3>3 DEF EnteredHands
  <2> QED  BY <1>6, <2>1, <2>2 DEF EnqueueNext
<1>7. ASSUME NEW r \in Requests, ClearRetry(r) PROVE R
  <2>1. req' = [req EXCEPT ![r] = [req[r] EXCEPT !.pc = "push"]]
    BY <1>7 DEF ClearRetry
  <2> QED  BY <1>0, <1>1, <2>1 DEF EnteredHands, RequestState, RequestRecord
<1>8. ASSUME NEW r \in Requests, EnqueueOrdered(r) PROVE R
  <2>1. req' = [req EXCEPT ![r] = [req[r] EXCEPT !.pc = "xadd"]]
    BY <1>8 DEF EnqueueOrdered
  <2>2. Later(req[r].cur)
    BY <1>8 DEF EnqueueOrdered, IsOrdered, Later
  <2> QED  BY <1>0, <1>1, <2>1, <2>2 DEF EnteredHands, RequestState, RequestRecord
<1>9. ASSUME NEW r \in Requests, EnqueueDelivery(r) PROVE R
  <2>1. req' = [req EXCEPT ![r] = [req[r] EXCEPT !.pc = "next", !.cur = None]]
    BY <1>9 DEF EnqueueDelivery
  <2> QED  BY <1>0, <1>1, <2>1 DEF EnteredHands, RequestState, RequestRecord
<1>10. ASSUME NEW r \in Requests, RequestDies(r) PROVE R
  BY <1>0, <1>1, <1>10 DEF RequestDies, EnteredHands, NoRequest, ReplayKinds
<1>11. ASSUME req' = req PROVE R
  BY <1>1, <1>11 DEF EnteredHands
<1>12. R
  <2> HIDE DEF R
  <2> QED
  BY <1>3, <1>4, <1>5, <1>6, <1>7, <1>8, <1>9, <1>10, <1>11
  DEF Next, vars, Serve, PatchEndpoint, MoveDue, Read, Reclaim, Handle, Load,
      AcquireLock, PeekHead, YieldLock, Defer, PassGates, FailGates, AutoDisable, Begin,
      Send, Record, Schedule, Refresh, PopHead, ReleaseLock, Ack, Raises, Crash,
      ExpireLock
<1> QED  BY <1>1, <1>2, <1>12 DEF EnteredHands, Entered, IsOrdered, Later

(***************************************************************************)
(* A row settles, and a delivery is POSTed, in the hands of a worker.      *)
(***************************************************************************)
LEMMA RowStep ==
    ASSUME TypeOK, [Next]_vars, NEW d \in Deliveries, row'[d].status \in Settled
    PROVE  \/ row[d].status \in Settled
           \/ /\ d \in settledOnce'
              /\ \E w \in Workers : /\ wk[w].pc = "record" /\ wk[w].cur = d
                                    /\ wk'[w].pc = "refresh" /\ wk'[w].cur = d
<1>0. row \in [Deliveries -> Row] /\ wk \in [Workers -> WorkerState]
  BY DEF TypeOK, TypeDb
<1> DEFINE Goal ==
      \/ row[d].status \in Settled
      \/ /\ d \in settledOnce'
         /\ \E w \in Workers : /\ wk[w].pc = "record" /\ wk[w].cur = d
                               /\ wk'[w].pc = "refresh" /\ wk'[w].cur = d
<1>1. ASSUME NEW r \in Requests, NEW ev \in Events, Ingest(r, ev) PROVE Goal
  BY <1>0, <1>1 DEF Ingest, Settled
<1>2. ASSUME NEW r \in Requests, ReplayCommit(r) PROVE Goal
  BY <1>0, <1>2 DEF ReplayCommit, Settled
<1>3. ASSUME NEW w \in Workers, Begin(w) PROVE Goal
  BY <1>0, <1>3 DEF Begin, Settled, Row
<1>4. ASSUME NEW w \in Workers, Record(w) PROVE Goal
  <2>1. CASE wk[w].cur = d
    <3>1. /\ wk[w].pc = "record" /\ wk[w] \in WorkerRecord
          /\ row'[d].status = Outcome(w)
          /\ Outcome(w) \in Settled => d \in settledOnce'
      BY <1>0, <1>4, <2>1, HandlerFacts DEF Record, At, Row
    <3>2. Outcome(w) # "failed"
      BY <3>1 DEF Settled
    <3>3. wk'[w].pc = "refresh" /\ wk'[w].cur = d
      BY <1>0, <1>4, <2>1, <3>1, <3>2 DEF Record, Become, WorkerRecord
    <3> QED  BY <2>1, <3>1, <3>3
  <2>2. CASE wk[w].cur # d
    BY <1>0, <1>4, <2>2 DEF Record
  <2> QED  BY <2>1, <2>2
<1>5. ASSUME row' = row PROVE Goal
  BY <1>5
<1>6. Goal
  <2> HIDE DEF Goal
  <2> QED
  BY <1>1, <1>2, <1>3, <1>4, <1>5
  DEF Next, vars, db, Serve, ReplaySelect, EnqueueNext, ClearRetry, EnqueueOrdered,
      EnqueueDelivery, RequestDies, PatchEndpoint, MoveDue, Read, Reclaim, Handle, Load,
      AcquireLock, PeekHead, YieldLock, Defer, PassGates, FailGates, AutoDisable, Send,
      Schedule, Refresh, PopHead, ReleaseLock, Ack, Raises, Crash, ExpireLock
<1> QED  BY <1>6

\* A POST is made by a worker that is sending.
LEMMA PostedStep ==
    ASSUME [Next]_vars, NEW d \in posted'
    PROVE  d \in posted \/ \E w \in Workers : wk[w].pc = "send" /\ wk[w].cur = d
<1>1. ASSUME NEW w \in Workers, NEW result \in Results, Send(w, result)
      PROVE  d \in posted \/ (wk[w].pc = "send" /\ wk[w].cur = d)
  BY <1>1 DEF Send, At
<1>2. CASE posted' = posted
  BY <1>2
<1> QED
  BY <1>1, <1>2
  DEF Next, vars, Serve, Ingest, ReplaySelect, ReplayCommit, EnqueueNext, ClearRetry,
      EnqueueOrdered, EnqueueDelivery, RequestDies, PatchEndpoint, MoveDue, Read,
      Reclaim, Handle, Load, AcquireLock, PeekHead, YieldLock, Defer, PassGates,
      FailGates, AutoDisable, Begin, Record, Schedule, Refresh, PopHead, ReleaseLock,
      Ack, Raises, Crash, ExpireLock, history

\* So rows that settled and deliveries that were POSTed had been pushed.
LEMMA EnteredRowsStep ==
    ASSUME TypeOK, [Next]_vars, Known
    PROVE  EnteredRows'
<1>1. \A d : Entered(d) => Entered(d)'
  BY Grows, EnteredLater
<1>2. \A w \in Workers : wk[w].pc # "idle" => Entered(wk[w].cur)
  BY DEF Known, EnteredHands
<1>3. ASSUME NEW d \in Deliveries, row'[d].status \in Settled PROVE Entered(d)
  BY <1>2, <1>3, RowStep DEF Known, EnteredRows
<1>4. ASSUME NEW d \in posted' PROVE Entered(d)
  BY <1>2, <1>4, PostedStep DEF Known, EnteredRows
<1> QED  BY <1>1, <1>3, <1>4 DEF EnteredRows

-----------------------------------------------------------------------------
(***************************************************************************)
(* The queue after an RPUSH and after an LREM.                             *)
(***************************************************************************)
LEMMA QueuePushed ==
    ASSUME TypeOK, AheadInv, QueueInv, NEW r \in Requests, EnqueueOrdered(r)
    PROVE  QueueInv'
<1> DEFINE d == req[r].cur
           e == EndpointOf[d]
           q == queue[e]
<1>0. /\ d \in Deliveries /\ e \in Endpoints /\ q \in Seq(Deliveries)
      /\ queue \in [Endpoints -> Seq(Deliveries)]
      /\ ahead \in [Deliveries -> SUBSET Deliveries]
      /\ pushed \subseteq Deliveries
      /\ settledOnce' = settledOnce
  BY IdentityAssumption
  DEF EnqueueOrdered, TypeOK, TypeFifo, TypeHistory, RequestState
<1>1. CASE ~IsOrdered(d)
  <2>1. UNCHANGED <<queue, pushed, ahead>>
    BY <1>1 DEF EnqueueOrdered
  <2> QED  BY <1>0, <2>1 DEF QueueInv, Queued
<1>2. CASE IsOrdered(d)
  <2> DEFINE n == Len(q)
  <2>1. /\ queue' = [queue EXCEPT ![e] = Append(q, d)]
        /\ pushed' = pushed \cup {d}
        /\ ahead' = IF d \in pushed THEN ahead
                    ELSE [ahead EXCEPT ![d] = {c \in pushed : EndpointOf[c] = e}]
    BY <1>2 DEF EnqueueOrdered
  <2>2. /\ queue'[e] = Append(q, d)
        /\ Len(queue'[e]) = n + 1 /\ queue'[e][n + 1] = d
        /\ \A i \in 1..n : queue'[e][i] = q[i]
        /\ \A f \in Endpoints : f # e => queue'[f] = queue[f]
        /\ n \in Nat /\ q = queue[e] /\ n = Len(queue[e]) /\ e = EndpointOf[d]
    BY <1>0, <2>1
  <2> HIDE DEF q, n, d, e
  <2>3. \A c \in pushed : ahead'[c] = ahead[c]
    BY <1>0, <2>1
  <2>4. \A c \in ahead'[d] : c \in pushed /\ EndpointOf[c] = e
    BY <1>0, <2>1, <2>2 DEF AheadInv
  <2>5. ASSUME NEW c \in Deliveries, NEW m \in Nat, Queued(c, m)
        PROVE  \E j \in 1..Len(queue'[EndpointOf[c]]) :
                  j <= m /\ queue'[EndpointOf[c]][j] = c
    <3>1. EndpointOf[c] \in Endpoints
      BY IdentityAssumption
    <3>2. PICK j \in 1..Len(queue[EndpointOf[c]]) :
             j <= m /\ queue[EndpointOf[c]][j] = c
      BY <2>5 DEF Queued
    <3>3. /\ j \in 1..Len(queue'[EndpointOf[c]])
          /\ queue'[EndpointOf[c]][j] = queue[EndpointOf[c]][j]
      <4>1. CASE EndpointOf[c] = e
        BY <2>2, <3>2, <4>1
      <4>2. CASE EndpointOf[c] # e
        BY <2>2, <3>1, <3>2, <4>2
      <4> QED  BY <4>1, <4>2
    <3> QED  BY <3>2, <3>3
  <2>6. ASSUME NEW f \in Endpoints, NEW i \in 1..Len(queue'[f])
        PROVE  queue'[f][i] \in pushed' /\ EndpointOf[queue'[f][i]] = f
    <3>1. CASE f = e /\ i = n + 1
      BY <2>1, <2>2, <3>1
    <3>2. CASE f = e /\ i # n + 1
      <4>1. i \in 1..Len(queue[e]) /\ queue'[f][i] = queue[e][i]
        BY <2>2, <2>6, <3>2
      <4> QED  BY <1>0, <2>1, <3>2, <4>1 DEF QueueInv
    <3>3. CASE f # e
      BY <2>1, <2>2, <2>6, <3>3 DEF QueueInv
    <3> QED  BY <3>1, <3>2, <3>3
  <2>7. ASSUME NEW c \in pushed', c \notin settledOnce
        PROVE  \E j \in 1..Len(queue'[EndpointOf[c]]) :
                  /\ j <= Len(queue'[EndpointOf[c]])
                  /\ queue'[EndpointOf[c]][j] = c
    <3>1. CASE c = d
      BY <2>2, <3>1
    <3>2. CASE c \in pushed
      <4>1. Queued(c, Len(queue[EndpointOf[c]])) /\ c \in Deliveries
        BY <1>0, <2>7, <3>2 DEF QueueInv
      <4>2. EndpointOf[c] \in Endpoints
        BY <4>1, IdentityAssumption
      <4>3. /\ Len(queue[EndpointOf[c]]) \in Nat
            /\ Len(queue'[EndpointOf[c]]) \in Nat
        BY <1>0, <2>2, <4>2
      <4> QED  BY <2>5, <4>1, <4>3
    <3> QED  BY <2>1, <2>7, <3>1, <3>2
  <2>8. ASSUME NEW f \in Endpoints, NEW i \in 1..Len(queue'[f]),
               NEW c \in ahead'[queue'[f][i]] \ settledOnce
        PROVE  \E j \in 1..Len(queue'[EndpointOf[c]]) :
                  j <= i - 1 /\ queue'[EndpointOf[c]][j] = c
    <3>1. CASE f = e /\ i = n + 1
      <4>1. c \in pushed /\ EndpointOf[c] = e
        BY <2>2, <2>4, <2>8, <3>1
      <4>2. Queued(c, n) /\ i - 1 = n
        <5>1. c \in settledOnce \/ Queued(c, Len(queue[EndpointOf[c]]))
          BY <4>1 DEF QueueInv
        <5> QED  BY <2>2, <2>8, <3>1, <4>1, <5>1
      <4> QED  BY <1>0, <2>2, <2>5, <4>1, <4>2
    <3>2. CASE ~(f = e /\ i = n + 1)
      <4>1. i \in 1..Len(queue[f]) /\ queue'[f][i] = queue[f][i]
        <5>1. CASE f = e
          BY <2>2, <2>8, <3>2, <5>1
        <5>2. CASE f # e
          BY <2>2, <2>8, <5>2
        <5> QED  BY <5>1, <5>2
      <4>2. queue[f][i] \in pushed /\ queue[f][i] \in Deliveries
        BY <1>0, <4>1 DEF QueueInv
      <4>3. c \in ahead[queue[f][i]] \ settledOnce
        BY <2>3, <2>8, <4>1, <4>2
      <4>4. Queued(c, i - 1)
        <5>1. \A g \in Endpoints : \A k \in 1..Len(queue[g]) :
                 \A b \in ahead[queue[g][k]] \ settledOnce : Queued(b, k - 1)
          BY DEF QueueInv
        <5> QED  BY <4>1, <4>3, <5>1, Zenon
      <4>5. c \in Deliveries
        <5>1. ahead[queue[f][i]] \in SUBSET Deliveries
          BY <1>0, <4>2
        <5> QED  BY <4>3, <5>1
      <4>6. i - 1 \in Nat
        <5>1. Len(queue[f]) \in Nat
          BY <1>0
        <5> QED  BY <4>1, <5>1
      <4> QED  BY <2>5, <4>4, <4>5, <4>6
    <3> QED  BY <3>1, <3>2
  <2>9. settledOnce' = settledOnce
    BY <1>0
  <2>10. \A c \in pushed' : c \in settledOnce' \/ Queued(c, Len(queue[EndpointOf[c]]))'
    BY <2>7, <2>9 DEF Queued
  <2>11. \A f \in Endpoints : \A i \in 1..Len(queue'[f]) :
            \A c \in ahead'[queue'[f][i]] \ settledOnce' : Queued(c, i - 1)'
    BY <2>8, <2>9 DEF Queued
  <2> QED  BY <2>6, <2>10, <2>11 DEF QueueInv
<1> QED  BY <1>1, <1>2

\* What LREM takes out has settled, the order of the rest is kept.
LEMMA QueuePopped ==
    ASSUME TypeOK, AheadInv, QueueInv, TurnInv, NEW w \in Workers, PopHead(w)
    PROVE  QueueInv'
<1> DEFINE d == wk[w].cur
           e == EndpointOf[d]
           q == queue[e]
           p == LREM(q, d)
<1>0. /\ d \in Deliveries /\ e \in Endpoints /\ q \in Seq(Deliveries)
      /\ queue \in [Endpoints -> Seq(Deliveries)]
      /\ pushed \subseteq Deliveries
      /\ ahead \in [Deliveries -> SUBSET Deliveries]
      /\ d \in settledOnce
  BY IdentityAssumption, HandlerFacts
  DEF PopHead, At, TypeOK, TypeFifo, TypeHistory, TurnInv
<1>1. /\ settledOnce' = settledOnce /\ pushed' = pushed /\ ahead' = ahead
      /\ queue' = [queue EXCEPT ![e] = p]
  BY DEF PopHead, history
<1>2. /\ queue'[e] = p /\ \A f \in Endpoints : f # e => queue'[f] = queue[f]
      /\ q = queue[e] /\ e \in Endpoints
  BY <1>0, <1>1
<1>3. CASE p = q
  <2>1. queue' = queue
    BY <1>0, <1>1, <1>3
  <2> QED  BY <1>1, <2>1 DEF QueueInv, Queued
<1>4. ASSUME NEW k \in 1..Len(q), q[k] = d, Len(p) = Len(q) - 1,
             \A j \in 1..(Len(q) - 1) : p[j] = IF j < k THEN q[j] ELSE q[j + 1]
      PROVE  QueueInv'
  <2> DEFINE Was(i) == IF i < k THEN i ELSE i + 1
  <2>0. Len(q) \in Nat
    BY <1>0
  <2>1. \A i \in 1..Len(p) : Was(i) \in 1..Len(q) /\ p[i] = q[Was(i)]
    BY <1>4, <2>0
  <2> HIDE DEF d, e, q, p
  <2>2. ASSUME NEW c, c \notin settledOnce, NEW j \in 1..Len(q), q[j] = c
        PROVE  /\ j < k => j \in 1..Len(p) /\ p[j] = c
               /\ j >= k => j > k /\ j - 1 \in 1..Len(p) /\ p[j - 1] = c
    <3>1. j # k
      BY <1>0, <1>4, <2>2
    <3>2. CASE j < k
      BY <1>4, <2>0, <2>2, <3>2
    <3>3. CASE j > k
      BY <1>4, <2>0, <2>2, <3>3
    <3> QED  BY <3>1, <3>2, <3>3
  <2>3. ASSUME NEW f \in Endpoints, NEW i \in 1..Len(queue'[f])
        PROVE  queue'[f][i] \in pushed /\ EndpointOf[queue'[f][i]] = f
    <3>1. CASE f = e
      <4>1. Was(i) \in 1..Len(q) /\ queue'[f][i] = q[Was(i)]
        BY <1>2, <2>1, <2>3, <3>1
      <4> QED  BY <1>2, <3>1, <4>1 DEF QueueInv
    <3>2. CASE f # e
      BY <1>2, <2>3, <3>2 DEF QueueInv
    <3> QED  BY <3>1, <3>2
  <2>4. ASSUME NEW c \in pushed, c \notin settledOnce
        PROVE  \E j \in 1..Len(queue'[EndpointOf[c]]) :
                  /\ j <= Len(queue'[EndpointOf[c]])
                  /\ queue'[EndpointOf[c]][j] = c
    <3>1. Queued(c, Len(queue[EndpointOf[c]])) /\ EndpointOf[c] \in Endpoints
      BY <1>0, <2>4, IdentityAssumption DEF QueueInv
    <3>2. CASE EndpointOf[c] # e
      BY <1>2, <3>1, <3>2 DEF Queued
    <3>3. CASE EndpointOf[c] = e
      <4>1. PICK j \in 1..Len(q) : q[j] = c
        BY <1>2, <3>1, <3>3 DEF Queued
      <4>2. \E i \in 1..Len(p) : p[i] = c
        BY <1>4, <2>0, <2>2, <2>4, <4>1
      <4>3. Len(p) \in Nat
        BY <1>4, <2>0
      <4> QED  BY <1>2, <3>3, <4>2, <4>3
    <3> QED  BY <3>2, <3>3
  <2>5. ASSUME NEW f \in Endpoints, NEW i \in 1..Len(queue'[f]),
               NEW c \in ahead[queue'[f][i]] \ settledOnce
        PROVE  \E j \in 1..Len(queue'[EndpointOf[c]]) :
                  j <= i - 1 /\ queue'[EndpointOf[c]][j] = c
    <3>0. EndpointOf[c] = f
      BY <1>0, <2>3, <2>5 DEF AheadInv
    <3>1. CASE f # e
      BY <1>2, <2>5, <3>0, <3>1 DEF QueueInv, Queued
    <3>2. CASE f = e
      <4>1. /\ Was(i) \in 1..Len(q) /\ queue'[f][i] = q[Was(i)]
            /\ i \in 1..Len(p)
        BY <1>2, <2>1, <2>5, <3>2
      <4>2. Queued(c, Was(i) - 1)
        BY <1>2, <2>5, <3>2, <4>1 DEF QueueInv
      <4>3. PICK j \in 1..Len(q) : j <= Was(i) - 1 /\ q[j] = c
        BY <1>2, <3>0, <3>2, <4>2 DEF Queued
      <4>4. /\ j < k => j \in 1..Len(p) /\ p[j] = c
            /\ j >= k => j > k /\ j - 1 \in 1..Len(p) /\ p[j - 1] = c
        BY <2>2, <2>5, <4>3
      <4>5. CASE j < k
        <5>1. j <= i - 1
          BY <1>4, <2>0, <4>1, <4>3, <4>5
        <5> QED  BY <1>2, <3>0, <3>2, <4>4, <4>5, <5>1
      <4>6. CASE j >= k
        <5>1. j - 1 <= i - 1
          BY <1>4, <2>0, <4>1, <4>3, <4>4, <4>6
        <5> QED  BY <1>2, <3>0, <3>2, <4>4, <4>6, <5>1
      <4> QED  BY <1>4, <2>0, <4>3, <4>5, <4>6
    <3> QED  BY <3>1, <3>2
  <2> QED  BY <1>1, <2>3, <2>4, <2>5 DEF QueueInv, Queued
<1> QED  BY <1>0, <1>3, <1>4, LREMFacts

(***************************************************************************)
(* Anything else leaves the queues alone, and more deliveries settle.      *)
(***************************************************************************)
LEMMA QueueInvStep ==
    ASSUME TypeOK, [Next]_vars, AheadInv, QueueInv, TurnInv
    PROVE  QueueInv'
<1>1. ASSUME NEW r \in Requests, EnqueueOrdered(r) PROVE QueueInv'
  BY <1>1, QueuePushed
<1>2. ASSUME NEW w \in Workers, PopHead(w) PROVE QueueInv'
  BY <1>2, QueuePopped
<1>3. ASSUME UNCHANGED <<queue, pushed, ahead>> PROVE QueueInv'
  BY <1>3, Grows DEF QueueInv, Queued
<1> QED
  BY <1>1, <1>2, <1>3
  DEF Next, vars, Serve, Ingest, ReplaySelect, ReplayCommit, EnqueueNext, ClearRetry,
      EnqueueDelivery, RequestDies, PatchEndpoint, MoveDue, Read, Reclaim, Handle,
      Load, AcquireLock, PeekHead, YieldLock, Defer, PassGates, FailGates, AutoDisable,
      Begin, Send, Record, Schedule, Refresh, ReleaseLock, Ack, Raises, Crash,
      ExpireLock, fifo, history

(***************************************************************************)
(* The head of its queue has only settled deliveries ahead of it, and so   *)
(* has a pushed delivery that finds the queue empty.                       *)
(***************************************************************************)
LEMMA HeadIsNext ==
    ASSUME TypeOK, AheadInv, QueueInv, NEW w \in Workers, wk[w].pc # "idle",
           AtHead(w)
    PROVE  ahead[wk[w].cur] \subseteq settledOnce
<1> DEFINE d == wk[w].cur
           e == EndpointOf[d]
<1>0. /\ d \in Deliveries /\ e \in Endpoints
      /\ queue[e] \in Seq(Deliveries)
  BY IdentityAssumption, HandlerFacts DEF TypeOK, TypeFifo
<1> SUFFICES ASSUME NEW c \in ahead[d], c \notin settledOnce PROVE FALSE
  OBVIOUS
<1>1. c \in pushed /\ EndpointOf[c] = e
  BY <1>0 DEF AheadInv
<1> HIDE DEF d
<1>2. CASE queue[e] = <<>>
  BY <1>1, <1>2 DEF QueueInv, Queued
<1>3. CASE queue[e] # <<>> /\ queue[e][1] = d
  <2>1. 1 \in 1..Len(queue[e])
    BY <1>0, <1>3
  <2>2. Queued(c, 1 - 1)
    BY <1>0, <1>3, <2>1 DEF QueueInv
  <2> QED  BY <1>0, <1>1, <2>2 DEF Queued
<1> QED  BY <1>0, <1>2, <1>3 DEF AtHead, d

\* Whoever comes to its turn has only settled deliveries ahead of it.
LEMMA TurnStep ==
    ASSUME TypeOK, [Next]_vars, Known, AheadInv, QueueInv, TurnInv
    PROVE  TurnInv'
<1>0. settledOnce \subseteq settledOnce'
  BY Grows
<1>1. ASSUME NEW d \in Deliveries, row'[d].status \in Settled
      PROVE  d \in settledOnce'
  BY <1>0, <1>1, RowStep DEF TurnInv
<1>2. ASSUME NEW w \in Workers, wk'[w].pc \in Turn \cup {"pop"}
      PROVE  \/ wk'[w] = wk[w]
             \/ /\ wk[w].pc # "idle" /\ wk'[w].cur = wk[w].cur
                /\ wk'[w].pc = "pop" => row[wk[w].cur].status \in Settled
                /\ wk'[w].pc \in Turn
                      => wk[w].pc \in Turn \/ ~IsOrdered(wk[w].cur) \/ AtHead(w)
  BY <1>2, WorkerMoves DEF Moves, Turn
<1>3. ASSUME NEW w \in Workers, wk'[w].pc \in Turn \cup {"pop"}
      PROVE  /\ wk[w].pc # "idle" /\ wk'[w].cur = wk[w].cur
             /\ wk[w].cur \in Deliveries
  BY <1>2, <1>3, HandlerFacts DEF Turn, TypeOK
<1>4. ASSUME NEW w \in Workers, wk'[w].pc = "pop"
      PROVE  wk'[w].cur \in settledOnce'
  BY <1>0, <1>2, <1>3, <1>4 DEF TurnInv
<1>5. ASSUME NEW w \in Workers, wk'[w].pc \in Turn
      PROVE  ahead'[wk'[w].cur] \subseteq settledOnce'
  <2>1. ahead'[wk[w].cur] = ahead[wk[w].cur]
    BY <1>3, <1>5, AheadKept DEF Known, EnteredHands
  <2>2. ahead[wk[w].cur] \subseteq settledOnce
    <3>1. CASE wk[w].pc \in Turn
      BY <3>1 DEF TurnInv, Turn
    <3>2. CASE ~IsOrdered(wk[w].cur)
      BY <1>3, <1>5, <3>2 DEF AheadInv
    <3>3. CASE AtHead(w)
      BY <1>3, <1>5, <3>3, HeadIsNext
    <3> QED  BY <1>2, <1>5, <3>1, <3>2, <3>3
  <2> QED  BY <1>0, <1>3, <1>5, <2>1, <2>2
<1> QED  BY <1>1, <1>4, <1>5 DEF TurnInv, Turn

\* The parts together are inductive.
LEMMA OrderStep ==
    ASSUME TypeOK, [Next]_vars, OrderInv
    PROVE  OrderInv'
<1>1. Known'
  BY EnteredQueuesStep, EnteredHandsStep, EnteredRowsStep DEF OrderInv, Known
<1>2. AheadInv' /\ QueueInv' /\ TurnInv'
  BY AheadStep, QueueInvStep, TurnStep DEF OrderInv
<1>3. OrderedFIFO'
  <2> SUFFICES ASSUME NEW d \in posted' PROVE ahead'[d] \subseteq settledOnce'
    BY DEF OrderedFIFO
  <2>1. Entered(d) /\ d \in Deliveries
    BY PostedStep, HandlerFacts
    DEF OrderInv, Known, EnteredRows, EnteredHands, TypeOK, TypeHistory
  <2>2. ahead'[d] = ahead[d]
    BY <2>1, AheadKept DEF OrderInv
  <2>3. ahead[d] \subseteq settledOnce
    BY PostedStep DEF OrderInv, OrderedFIFO, TurnInv, Turn
  <2> QED  BY <2>2, <2>3, Grows
<1> QED  BY <1>1, <1>2, <1>3 DEF OrderInv

\* The queue discipline always holds.
LEMMA OrderAlways == Spec => [](TypeOK /\ OrderInv)
<1>1. Init => OrderInv
  BY DEF Init, OrderInv, Known, EnteredQueues, EnteredHands, EnteredRows, AheadInv,
         QueueInv, TurnInv, Turn, OrderedFIFO, Idle, NoRequest, NoRow, Settled, ReplayKinds
<1>2. TypeOK /\ OrderInv /\ [Next]_vars => OrderInv'
  BY OrderStep
<1> QED  BY <1>1, <1>2, TypeCorrect, PTL DEF Spec

(***************************************************************************)
(* OrderedFIFOCorrect: an ordered endpoint is served in the order in which *)
(* its deliveries were first pushed, for any number of workers, crashes,   *)
(* exceptions, steals, replays and locks that expire under their holders   *)
(* (ordering.py: peek_head before every attempt, pop_head only for what    *)
(* has settled).                                                           *)
(***************************************************************************)
THEOREM OrderedFIFOCorrect == Spec => []OrderedFIFO
<1>1. OrderInv => OrderedFIFO
  BY DEF OrderInv
<1> QED  BY <1>1, OrderAlways, PTL

-----------------------------------------------------------------------------
\* The delivery a request is enqueuing is not on its list any more.
Apart == \A r \in Requests : req[r].cur \notin req[r].todo

\* So it stays.
LEMMA ApartStep ==
    ASSUME TypeOK, Apart, [Next]_vars
    PROVE  Apart'
<1>0. req \in [Requests -> RequestState] /\ None \notin Deliveries
  BY IdentityAssumption DEF TypeOK
<1>1. ASSUME NEW r \in Requests, NEW q, req' = [req EXCEPT ![r] = q], q.cur \notin q.todo
      PROVE  Apart'
  BY <1>0, <1>1 DEF Apart
<1>2. ASSUME NEW r \in Requests, NEW ev \in Events, Ingest(r, ev) PROVE Apart'
  <2> DEFINE fanout == {c \in Deliveries : /\ EventOf[c] = ev
                                           /\ epStatus[EndpointOf[c]] = "active"}
             q == [pc |-> "next", kind |-> "ingest", todo |-> fanout, cur |-> None]
  <2>1. req' = [req EXCEPT ![r] = q]
    BY <1>2 DEF Ingest
  <2>2. q.cur \notin q.todo
    BY <1>0
  <2> QED  BY <1>1, <2>1, <2>2
<1>3. ASSUME NEW r \in Requests, NEW e \in Endpoints, NEW chosen \in SUBSET Deliveries,
             NEW kind \in ReplayKinds, ReplaySelect(r, e, chosen, kind)
      PROVE  Apart'
  BY <1>0, <1>3 DEF ReplaySelect, Apart
<1>4. ASSUME NEW r \in Requests, ReplayCommit(r) \/ ClearRetry(r) \/ EnqueueOrdered(r)
      PROVE  Apart'
  <2>1. /\ req'[r].cur = req[r].cur /\ req'[r].todo = req[r].todo
        /\ \A q \in Requests : q # r => req'[q] = req[q]
    BY <1>0, <1>4
    DEF ReplayCommit, ClearRetry, EnqueueOrdered, RequestState, RequestRecord
  <2> QED  BY <2>1 DEF Apart
<1>5. ASSUME NEW r \in Requests, EnqueueNext(r) PROVE Apart'
  <2>1. CASE req' = [req EXCEPT ![r] = NoRequest]
    BY <1>0, <2>1 DEF NoRequest, Apart
  <2>2. ASSUME NEW c \in req[r].todo,
               req' = [req EXCEPT ![r].pc = FirstStep(req[r].kind),
                                  ![r].cur = c, ![r].todo = @ \ {c}]
        PROVE  Apart'
    <3>1. /\ req'[r].cur = c /\ req'[r].todo = req[r].todo \ {c}
          /\ \A q \in Requests : q # r => req'[q] = req[q]
      BY <1>0, <2>2 DEF RequestState, RequestRecord
    <3> QED  BY <3>1 DEF Apart
  <2> QED  BY <1>5, <2>1, <2>2 DEF EnqueueNext
<1>6. ASSUME NEW r \in Requests, EnqueueDelivery(r) PROVE Apart'
  <2>1. /\ req'[r].cur = None /\ req'[r].todo = req[r].todo
        /\ req[r].todo \subseteq Deliveries
        /\ \A q \in Requests : q # r => req'[q] = req[q]
    BY <1>0, <1>6 DEF EnqueueDelivery, RequestState, RequestRecord
  <2> QED  BY <1>0, <2>1 DEF Apart
<1>7. ASSUME NEW r \in Requests, RequestDies(r) PROVE Apart'
  BY <1>0, <1>7 DEF RequestDies, NoRequest, Apart
<1>8. ASSUME UNCHANGED req PROVE Apart'
  BY <1>8 DEF Apart
<1> QED
  BY <1>2, <1>3, <1>4, <1>5, <1>6, <1>7, <1>8
  DEF Next, vars, Serve, PatchEndpoint, MoveDue, Read, Reclaim, Handle, Load,
      AcquireLock, PeekHead, YieldLock, Defer, PassGates, FailGates, AutoDisable, Begin,
      Send, Record, Schedule, Refresh, PopHead, ReleaseLock, Ack, Raises, Crash,
      ExpireLock

-----------------------------------------------------------------------------
(***************************************************************************)
(* The head of the queue.  A delivery that did not go astray was pushed    *)
(* only while it was neither settled nor queued.  So pop_head takes the    *)
(* one copy there is, and a settled delivery that is still queued, at the  *)
(* head or behind it, has a handler that will pop it.                      *)
(***************************************************************************)
NoTwins ==
    \A e \in Endpoints : \A i, j \in 1..Len(queue[e]) :
        queue[e][i] = queue[e][j] /\ queue[e][i] \notin astray => i = j

InQueue(e, d) == \E i \in 1..Len(queue[e]) : queue[e][i] = d

Leaving ==
    \A e \in OrderedEndpoints : \A d \in Deliveries \ astray :
        InQueue(e, d) /\ row[d].status \in Settled => BeingPopped(d)

-----------------------------------------------------------------------------
\* What went astray once is not counted as answered for again.
LEMMA AstrayGrows ==
    ASSUME [Next]_vars
    PROVE  astray \subseteq astray'
<1>1. ASSUME NEW r \in Requests, Serve(r) PROVE astray \subseteq astray'
  BY <1>1
  DEF Serve, ReplayCommit, EnqueueNext, ClearRetry, EnqueueOrdered, EnqueueDelivery,
      history
<1>2. ASSUME NEW w \in Workers, Handle(w) PROVE astray \subseteq astray'
  BY <1>2
  DEF Handle, Load, AcquireLock, PeekHead, YieldLock, Defer, PassGates, FailGates,
      AutoDisable, Begin, Send, Record, Schedule, Refresh, PopHead, ReleaseLock, Ack,
      history
<1>3. ASSUME NEW w \in Workers, Raises(w) \/ Crash(w) PROVE astray \subseteq astray'
  BY <1>3 DEF Raises, Crash, Strays
<1> QED
  BY <1>1, <1>2, <1>3
  DEF Next, vars, Ingest, ReplaySelect, RequestDies, PatchEndpoint, MoveDue, Read,
      Reclaim, ExpireLock, history

\* RPUSH of a delivery that does not go astray by it.
LEMMA PushedAlone ==
    ASSUME TypeOK, NoTwins, NEW r \in Requests, EnqueueOrdered(r)
    PROVE  /\ NoTwins'
           /\ \A e \in Endpoints : \A d \in Deliveries \ astray' :
                 InQueue(e, d)' => InQueue(e, d) \/ row[d].status \notin Settled
<1> DEFINE c == req[r].cur
           e == EndpointOf[c]
           q == queue[e]
<1>0. /\ c \in Deliveries /\ e \in Endpoints
      /\ queue \in [Endpoints -> Seq(Deliveries)] /\ q \in Seq(Deliveries)
  BY IdentityAssumption DEF EnqueueOrdered, TypeOK, TypeFifo, RequestState
<1>1. CASE queue' = queue /\ astray' = astray
  BY <1>1 DEF NoTwins, InQueue
<1>2. CASE /\ queue' = [queue EXCEPT ![e] = Append(q, c)]
           /\ astray' = IF c \in ToSet(q) \/ row[c].status \in Settled
                        THEN astray \cup {c} ELSE astray
  <2>1. /\ \A f \in Endpoints : f # e => queue'[f] = queue[f]
        /\ Len(q) \in Nat /\ Len(queue'[e]) = Len(q) + 1
        /\ \A i \in 1..Len(q) : queue'[e][i] = q[i]
        /\ queue'[e][Len(q) + 1] = c
    BY <1>0, <1>2
  <2>2. /\ astray \subseteq astray'
        /\ c \notin astray' => row[c].status \notin Settled
        /\ c \notin astray' => \A i \in 1..Len(q) : q[i] # c
    <3>1. \A i \in 1..Len(q) : q[i] \in ToSet(q)
      BY <1>0 DEF ToSet
    <3> QED  BY <1>2, <3>1
  <2> HIDE DEF c, e
  <2>3. ASSUME NEW f \in Endpoints, NEW i \in 1..Len(queue'[f]), NEW j \in 1..Len(queue'[f]),
               queue'[f][i] = queue'[f][j], queue'[f][i] \notin astray'
        PROVE  i = j
    <3>1. CASE f # e
      BY <2>1, <2>2, <2>3, <3>1 DEF NoTwins
    <3>2. CASE f = e
      BY <1>0, <2>1, <2>2, <2>3, <3>2 DEF NoTwins
    <3> QED  BY <3>1, <3>2
  <2>4. ASSUME NEW f \in Endpoints, NEW d \in Deliveries, InQueue(f, d)'
        PROVE  InQueue(f, d) \/ d = c
    <3>1. CASE f # e
      BY <2>1, <2>4, <3>1 DEF InQueue
    <3>2. CASE f = e
      BY <1>0, <2>1, <2>4, <3>2 DEF InQueue
    <3> QED  BY <3>1, <3>2
  <2>5. NoTwins'
    BY <2>3 DEF NoTwins
  <2> QED  BY <2>2, <2>4, <2>5
<1> QED  BY <1>1, <1>2 DEF EnqueueOrdered

\* LREM takes the only copy there is.
LEMMA PoppedGone ==
    ASSUME TypeOK, NoTwins, NEW w \in Workers, PopHead(w)
    PROVE  /\ NoTwins'
           /\ \A e \in Endpoints : \A d \in Deliveries \ astray : InQueue(e, d)' =>
                 /\ InQueue(e, d)
                 /\ ~(d = wk[w].cur /\ e = EndpointOf[d])
<1> DEFINE c == wk[w].cur
           e == EndpointOf[c]
           q == queue[e]
           p == LREM(q, c)
<1>0. /\ c \in Deliveries /\ e \in Endpoints
      /\ queue \in [Endpoints -> Seq(Deliveries)] /\ q \in Seq(Deliveries)
      /\ Len(q) \in Nat
  BY IdentityAssumption, HandlerFacts DEF PopHead, At, TypeOK, TypeFifo
<1>1. /\ queue'[e] = p /\ astray' = astray
      /\ \A f \in Endpoints : f # e => queue'[f] = queue[f]
  BY <1>0 DEF PopHead, history
<1>2. \/ (\A i \in 1..Len(q) : q[i] # c) /\ p = q
      \/ \E k \in 1..Len(q) :
            /\ q[k] = c
            /\ Len(p) = Len(q) - 1
            /\ \A j \in 1..(Len(q) - 1) : p[j] = IF j < k THEN q[j] ELSE q[j + 1]
  <2> HIDE DEF q, c
  <2> QED  BY <1>0, LREMFacts
<1> HIDE DEF p, c, e
<1>3. CASE (\A i \in 1..Len(q) : q[i] # c) /\ p = q
  <2>1. \A f \in Endpoints : queue'[f] = queue[f]
    BY <1>1, <1>3
  <2>2. ~InQueue(e, c)
    BY <1>3 DEF InQueue
  <2> QED  BY <1>1, <1>3, <2>1, <2>2 DEF NoTwins, InQueue, e, c
<1>4. ASSUME NEW k \in 1..Len(q), q[k] = c, Len(p) = Len(q) - 1,
             \A j \in 1..(Len(q) - 1) : p[j] = IF j < k THEN q[j] ELSE q[j + 1]
      PROVE  /\ NoTwins'
             /\ \A f \in Endpoints : \A d \in Deliveries \ astray : InQueue(f, d)' =>
                   InQueue(f, d) /\ ~(d = c /\ f = EndpointOf[d])
  <2> DEFINE Was(i) == IF i < k THEN i ELSE i + 1
  <2>1. \A i \in 1..Len(p) : Was(i) \in 1..Len(q) /\ p[i] = q[Was(i)] /\ Was(i) # k
    BY <1>0, <1>4
  <2>2. \A i, j \in 1..Len(p) : Was(i) = Was(j) => i = j
    BY <1>0, <1>4
  <2>3. \A i, j \in 1..Len(q) : q[i] = q[j] /\ q[i] \notin astray => i = j
    BY <1>0 DEF NoTwins
  <2> HIDE DEF Was
  <2>4. \A i, j \in 1..Len(p) : p[i] = p[j] /\ p[i] \notin astray => i = j
    BY <2>1, <2>2, <2>3
  <2>5. c \notin astray => \A i \in 1..Len(p) : p[i] # c
    BY <1>4, <2>1, <2>3
  <2>6. NoTwins'
    BY <1>1, <2>4 DEF NoTwins
  <2>7. ASSUME NEW f \in Endpoints, NEW d \in Deliveries \ astray, InQueue(f, d)'
        PROVE  InQueue(f, d) /\ ~(d = c /\ f = EndpointOf[d])
    <3>1. CASE f # e
      BY <1>1, <2>7, <3>1 DEF InQueue, e
    <3>2. CASE f = e
      BY <1>1, <2>1, <2>5, <2>7, <3>2 DEF InQueue
    <3> QED  BY <3>1, <3>2
  <2> QED  BY <2>6, <2>7
<1> QED  BY <1>2, <1>3, <1>4 DEF c

\* A handler about to pop stays until it has read the row and popped, or fails
\* and leaves its delivery astray.
LEMMA PopperStays ==
    ASSUME TypeOK, [Next]_vars, NEW w \in Workers, wk[w].pc \in {"refresh", "pop"}
    PROVE  wk'[w] = wk[w] \/ Refresh(w) \/ PopHead(w) \/ wk[w].cur \in astray'
<1>0. wk \in [Workers -> WorkerState]
  BY DEF TypeOK
<1>2. ASSUME NEW u \in Workers, NEW s \in Slots, Read(u, s) \/ Reclaim(u, s)
      PROVE  wk'[w] = wk[w]
  BY <1>0, <1>2 DEF Read, Reclaim, Start, Become
<1>3. ASSUME NEW u \in Workers, Handle(u), u # w PROVE wk'[w] = wk[w]
  BY <1>0, <1>3
  DEF Handle, Load, AcquireLock, PeekHead, YieldLock, Defer, PassGates, FailGates,
      AutoDisable, Begin, Send, Record, Schedule, Refresh, PopHead, ReleaseLock, Ack,
      Goto, Become
<1>4. ASSUME Handle(w) PROVE Refresh(w) \/ PopHead(w)
  BY <1>4
  DEF Handle, Load, AcquireLock, PeekHead, YieldLock, Defer, PassGates, FailGates,
      AutoDisable, Begin, Send, Record, Schedule, ReleaseLock, Ack, At
<1>5. ASSUME NEW u \in Workers, Raises(u) \/ Crash(u), u # w PROVE wk'[w] = wk[w]
  BY <1>0, <1>5 DEF Raises, Crash, Become
<1>6. ASSUME Raises(w) \/ Crash(w) PROVE wk[w].cur \in astray'
  BY <1>6 DEF Raises, Crash, Strays
<1> QED
  BY <1>2, <1>3, <1>4, <1>5, <1>6
  DEF Next, vars, Ingest, ReplaySelect, Serve, ReplayCommit, EnqueueNext, ClearRetry,
      EnqueueOrdered, EnqueueDelivery, RequestDies, PatchEndpoint, MoveDue, ExpireLock

\* So the twins stay apart and the settled are popped.
LEMMA LeavingStep ==
    ASSUME TypeOK, QueueInv, NoTwins, Leaving, [Next]_vars
    PROVE  NoTwins' /\ Leaving'
<1>0. /\ wk \in [Workers -> WorkerState] /\ OrderedEndpoints \subseteq Endpoints
      /\ astray \subseteq astray'
  BY IdentityAssumption, AstrayGrows DEF TypeOK
<1>1. \/ queue' = queue
      \/ \E r \in Requests : EnqueueOrdered(r)
      \/ \E w \in Workers : PopHead(w)
  BY DEF Next, vars, fifo, Serve, Ingest, ReplaySelect, ReplayCommit, EnqueueNext,
         ClearRetry, EnqueueDelivery, RequestDies, PatchEndpoint, MoveDue, Read, Reclaim,
         Handle, Load, AcquireLock, PeekHead, YieldLock, Defer, PassGates, FailGates,
         AutoDisable, Begin, Send, Record, Schedule, Refresh, ReleaseLock, Ack, Raises,
         Crash, ExpireLock
<1>2. NoTwins'
  <2>1. CASE queue' = queue
    BY <1>0, <2>1 DEF NoTwins
  <2> QED  BY <1>1, <2>1, PushedAlone, PoppedGone
<1>3. ASSUME NEW e \in OrderedEndpoints, NEW d \in Deliveries \ astray', InQueue(e, d)',
             row'[d].status \in Settled
      PROVE  BeingPopped(d)'
  <2>0. d \in Deliveries \ astray /\ e \in Endpoints
    BY <1>0
  <2>1. CASE row[d].status \notin Settled
    BY <1>3, <2>1, RowStep DEF BeingPopped
  <2>2. CASE row[d].status \in Settled /\ InQueue(e, d)
    <3>1. PICK w \in Workers : wk[w].cur = d /\ wk[w].pc \in {"refresh", "pop"}
      BY <2>0, <2>2 DEF Leaving, BeingPopped
    <3>2. EndpointOf[d] = e /\ IsOrdered(d)
      BY <2>0, <2>2 DEF QueueInv, InQueue, IsOrdered
    <3>3. ~PopHead(w)
      BY <2>0, <1>3, <3>1, <3>2, PoppedGone
    <3>4. CASE Refresh(w)
      <4>1. wk'[w].pc = "pop" /\ wk'[w].cur = d
        BY <1>0, <2>2, <3>1, <3>2, <3>4, HandlerFacts
        DEF Refresh, Become, At, WorkerRecord
      <4> QED  BY <4>1 DEF BeingPopped
    <3>5. CASE wk'[w] = wk[w]
      BY <3>1, <3>5 DEF BeingPopped
    <3> QED  BY <1>3, <3>1, <3>3, <3>4, <3>5, PopperStays
  <2>3. CASE row[d].status \in Settled /\ ~InQueue(e, d)
    <3>1. \A r \in Requests : ~EnqueueOrdered(r)
      BY <1>3, <2>0, <2>3, PushedAlone
    <3>2. \A w \in Workers : ~PopHead(w)
      BY <1>3, <2>0, <2>3, PoppedGone
    <3>3. queue' # queue
      BY <1>3, <2>3 DEF InQueue
    <3> QED  BY <1>1, <3>1, <3>2, <3>3
  <2> QED  BY <2>1, <2>2, <2>3
<1> QED  BY <1>2, <1>3 DEF Leaving

(***************************************************************************)
(* HeadAnsweredForCorrect: a settled delivery stays at the head of an      *)
(* ordered queue without a handler about to pop it only if a handler       *)
(* failed between the outcome's commit and pop_head, or it was pushed when *)
(* it had settled or was still queued (worker.py, record_outcome before    *)
(* pop_head).  This holds for any number of workers, faults, replays,      *)
(* locks that expire under their holders and entries stolen from live      *)
(* handlers.                                                               *)
(***************************************************************************)
THEOREM HeadAnsweredForCorrect == Spec => []HeadAnsweredFor
<1>1. Init => NoTwins /\ Leaving
  BY DEF Init, NoTwins, Leaving, NoRow, Settled
<1>2. TypeOK /\ OrderInv /\ NoTwins /\ Leaving /\ [Next]_vars => NoTwins' /\ Leaving'
  BY LeavingStep DEF OrderInv
<1>3. TypeOK /\ Leaving => HeadAnsweredFor
  <2> SUFFICES ASSUME TypeOK, Leaving, NEW e \in OrderedEndpoints, SettledHead(e)
               PROVE  BeingPopped(Head(queue[e])) \/ Head(queue[e]) \in astray
    BY DEF HeadAnsweredFor
  <2>1. /\ Head(queue[e]) = queue[e][1] /\ 1 \in 1..Len(queue[e])
        /\ Head(queue[e]) \in Deliveries
    <3>1. queue[e] \in Seq(Deliveries) /\ queue[e] # <<>>
      BY IdentityAssumption DEF TypeOK, TypeFifo, SettledHead
    <3> QED  BY <3>1
  <2>2. InQueue(e, Head(queue[e]))
    BY <2>1 DEF InQueue
  <2> QED  BY <2>1, <2>2 DEF Leaving, SettledHead
<1> QED
  BY <1>1, <1>2, <1>3, OrderAlways, PTL DEF Spec
=============================================================================
