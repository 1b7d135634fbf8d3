--------------------------- MODULE IngestionProofs ---------------------------
(***************************************************************************)
(* Proofs about ingestion: one event per idempotency key, no refusal       *)
(* without a cause, and no stream entry without its row and its place in   *)
(* the queue, for any number of requests, endpoints and workers and any    *)
(* number of outages, wipes, dead tasks and endpoint operations.           *)
(***************************************************************************)
EXTENDS Ingestion, FiniteSetTheorems, SequenceTheorems, TLAPS

Delivery == Requests \X Endpoints

Task ==
    [pc : {"down", "loop", "reclaim", "handle", "backoff", "ended"},
     todo : Seq(Delivery), due : BOOLEAN, stop : BOOLEAN]

Request ==
    [pc : {"new", "select", "commit", "conflict", "enqueue", "push", "xadd",
           "done", "error"},
     todo : SUBSET Endpoints, cur : Endpoints \cup {None},
     answer : Requests \cup {None}]

ShardTypes ==
    /\ up \in BOOLEAN /\ group \in BOOLEAN
    /\ stream \in Seq(Delivery)
    /\ pel \in SUBSET Delivery /\ IsFiniteSet(pel)
    /\ task \in [Workers -> Task]
    /\ spent \in [outages : Nat, wipes : Nat, failures : Nat]
    /\ \A w \in Workers :
          /\ Handling(w) => task[w].pc \in {"reclaim", "handle"}
          /\ At(w, "handle") => Len(task[w].todo) = 1

ApiTypes ==
    /\ endpoint \in [Endpoints -> {"none", "active", "paused", "deleted"}]
    /\ events \in SUBSET Requests
    /\ rows \in SUBSET (events \X Endpoints)
    /\ req \in [Requests -> Request]
    /\ \A r \in Requests :
          /\ req[r].pc \in {"push", "xadd"} <=> req[r].cur \in Endpoints
          /\ InReq(r, "done") <=> req[r].answer \in Requests

(***************************************************************************)
(* One event per key rests on who may commit: a request that has inserted  *)
(* its key and not committed yet is alone with it, and nobody has          *)
(* committed it.                                                           *)
(***************************************************************************)
Enqueueing(r) == req[r].pc \in {"enqueue", "push", "xadd"}
Undecided(r) == req[r].pc \in {"new", "select", "commit", "conflict"}

KeyInv ==
    /\ \A r \in Requests : Enqueueing(r) => r \in events
    /\ \A r \in Requests : Undecided(r) => r \notin events
    /\ \A r \in Requests : InReq(r, "commit") => Existing(r) = {}
    /\ \A r, s \in Requests :
          InReq(r, "commit") /\ InReq(s, "commit") /\ SameKey(r, s) => r = s

\* What a request still has to enqueue is written, or its endpoint is gone.
Written(d) == d \in rows \/ endpoint[d[2]] = "deleted"
WriteInv ==
    \A r \in Requests : Enqueueing(r) =>
        \A e \in Endpoints : e \in req[r].todo \/ e = req[r].cur => Written(<<r, e>>)

\* An ordered delivery is pushed before its entry is added.
PushInv ==
    spent.wipes = 0 =>
        \A r \in Requests :
            InReq(r, "xadd") /\ req[r].cur \in Ordered => <<r, req[r].cur>> \in queue

IngestInv ==
    /\ ShardTypes /\ ApiTypes
    /\ KeyInv /\ AnswersAgree
    /\ WriteInv /\ RowBeforeEntry
    /\ PushInv /\ QueueBeforeEntry

-----------------------------------------------------------------------------
\* XADD and a read, as sets of entries.
LEMMA AppendSet ==
    ASSUME NEW S, NEW q \in Seq(S), NEW x \in S
    PROVE  Append(q, x) \in Seq(S) /\ ToSet(Append(q, x)) \subseteq ToSet(q) \cup {x}
<1>1. /\ Append(q, x) \in Seq(S) /\ Len(Append(q, x)) = Len(q) + 1
      /\ \A i \in 1..Len(q) : Append(q, x)[i] = q[i]
      /\ Append(q, x)[Len(q) + 1] = x
  OBVIOUS
<1>2. DOMAIN q = 1..Len(q) /\ DOMAIN Append(q, x) = 1..(Len(q) + 1) /\ Len(q) \in Nat
  BY <1>1
<1> QED  BY <1>1, <1>2 DEF ToSet

\* What is behind the head was there before.
LEMMA TailSet ==
    ASSUME NEW S, NEW q \in Seq(S), q # <<>>
    PROVE  /\ Tail(q) \in Seq(S) /\ Head(q) \in S
           /\ Head(q) \in ToSet(q) /\ ToSet(Tail(q)) \subseteq ToSet(q)
           /\ Len(Tail(q)) = Len(q) - 1
<1>1. /\ Len(q) \in Nat /\ Len(q) > 0 /\ Head(q) = q[1]
      /\ Tail(q) \in Seq(S) /\ Len(Tail(q)) = Len(q) - 1
      /\ \A i \in 1..(Len(q) - 1) : Tail(q)[i] = q[i + 1]
      /\ DOMAIN q = 1..Len(q) /\ DOMAIN Tail(q) = 1..(Len(q) - 1)
  OBVIOUS
<1>2. ASSUME NEW i \in 1..(Len(q) - 1) PROVE Tail(q)[i] \in ToSet(q)
  <2>1. i + 1 \in 1..Len(q) /\ Tail(q)[i] = q[i + 1]
    BY <1>1
  <2> QED  BY <1>1, <2>1 DEF ToSet
<1>3. ToSet(Tail(q)) \subseteq ToSet(q)
  BY <1>1, <1>2 DEF ToSet
<1>4. 1 \in DOMAIN q /\ q[1] \in S
  BY <1>1
<1> QED  BY <1>1, <1>3, <1>4 DEF ToSet

\* XAUTOCLAIM hands out pending entries only.
LEMMA SetToSeqFacts ==
    ASSUME NEW S, IsFiniteSet(S)
    PROVE  SetToSeq(S) \in Seq(S) /\ ToSet(SetToSeq(S)) \subseteq S
<1> DEFINE n == Cardinality(S)
           Lists(f) == f \in [1..n -> S] /\ IsInjective(f)
<1>1. n \in Nat /\ ExistsBijection(1..n, S)
  BY FS_CardinalityType
<1>2. PICK f : f \in Bijection(1..n, S)
  BY <1>1 DEF ExistsBijection
<1>3. Lists(f)
  BY <1>2 DEF Bijection, Injection, IsInjective
<1>4. SetToSeq(S) = CHOOSE g : Lists(g)
  BY DEF SetToSeq
<1> HIDE DEF Lists
<1>5. Lists(SetToSeq(S))
  BY <1>3, <1>4
<1>6. SetToSeq(S) \in [1..n -> S]
  BY <1>5 DEF Lists
<1>7. SetToSeq(S) \in Seq(S)
  BY <1>1, <1>6
<1> QED  BY <1>6, <1>7 DEF ToSet

-----------------------------------------------------------------------------
(***************************************************************************)
(* The worker processes.  Whatever a step makes of one task, the types are *)
(* kept and no entry comes into being.                                     *)
(***************************************************************************)
Shaped(t) ==
    /\ t \in Task
    /\ t.todo # <<>> => t.pc \in {"reclaim", "handle"}
    /\ t.pc = "handle" => Len(t.todo) = 1

LEMMA TaskBecomes ==
    ASSUME ShardTypes, NEW w \in Workers, NEW t, Shaped(t),
           task' = [task EXCEPT ![w] = t],
           up' = up, group' \in BOOLEAN,
           stream' \in Seq(Delivery), pel' \in SUBSET Delivery, IsFiniteSet(pel'),
           spent' \in [outages : Nat, wipes : Nat, failures : Nat],
           ToSet(stream') \subseteq Entries, pel' \subseteq Entries,
           ToSet(t.todo) \subseteq Entries
    PROVE  ShardTypes' /\ Entries' \subseteq Entries
<1>0. task \in [Workers -> Task]
  BY DEF ShardTypes
<1>1. task'[w] = t /\ \A v \in Workers : v # w => task'[v] = task[v]
  BY <1>0
<1>2. task' \in [Workers -> Task]
  BY <1>0 DEF Shaped
<1>3. \A v \in Workers : /\ Handling(v)' => task'[v].pc \in {"reclaim", "handle"}
                         /\ At(v, "handle")' => Len(task'[v].todo) = 1
  BY <1>1 DEF Shaped, ShardTypes, Handling, At
<1>4. InHand' \subseteq InHand \cup ToSet(t.todo)
  BY <1>1 DEF InHand
<1>5. ShardTypes'
  BY <1>2, <1>3 DEF ShardTypes
<1> QED  BY <1>4, <1>5 DEF Entries

\* What the task of a worker is, for the steps below.
LEMMA TaskFacts ==
    ASSUME ShardTypes, NEW w \in Workers
    PROVE  /\ Shaped(task[w])
           /\ ToSet(task[w].todo) \subseteq Entries
           /\ ToSet(stream) \subseteq Entries /\ pel \subseteq Entries
<1>1. Shaped(task[w])
  BY DEF ShardTypes, Shaped, Handling, At
<1> QED  BY <1>1 DEF Entries, InHand

\* Every step of a worker process keeps the types and adds no entry.
LEMMA WorkerKeeps ==
    ASSUME ShardTypes, NEW w \in Workers, WorkerStep(w)
    PROVE  /\ ShardTypes' /\ Entries' \subseteq Entries
           /\ up' = up /\ spent'.outages = spent.outages
           /\ spent'.wipes = spent.wipes /\ spent'.failures >= spent.failures
<1>0. /\ task \in [Workers -> Task] /\ task[w] \in Task /\ Shaped(task[w])
      /\ stream \in Seq(Delivery) /\ pel \in SUBSET Delivery /\ IsFiniteSet(pel)
      /\ group \in BOOLEAN
      /\ spent \in [outages : Nat, wipes : Nat, failures : Nat]
      /\ ToSet(task[w].todo) \subseteq Entries
      /\ ToSet(stream) \subseteq Entries /\ pel \subseteq Entries
  BY TaskFacts DEF ShardTypes
<1>1. ToSet(<<>>) = {} /\ <<>> \in Seq(Delivery)
  BY DEF ToSet
<1> DEFINE Kept ==
        /\ up' = up /\ spent'.outages = spent.outages
        /\ spent'.wipes = spent.wipes /\ spent'.failures >= spent.failures
        /\ spent' \in [outages : Nat, wipes : Nat, failures : Nat]
<1>2. ASSUME Fail, up' = up PROVE Kept
  BY <1>0, <1>2 DEF Fail
<1>3. ASSUME spent' = spent, up' = up PROVE Kept
  BY <1>0, <1>3
<1>4. CASE StartWorker(w) \/ EndBackoff(w)
  <2> DEFINE t == [task[w] EXCEPT !.pc = "loop"]
  <2>1. /\ Kept /\ group' \in BOOLEAN /\ stream' = stream /\ pel' = pel
        /\ task' = [task EXCEPT ![w] = t]
    BY <1>0, <1>3, <1>4 DEF StartWorker, EndBackoff, EnsureGroup, Move
  <2>2. Shaped(t) /\ t.todo = task[w].todo
    BY <1>0, <1>4 DEF Shaped, Task, StartWorker, EndBackoff, At
  <2> HIDE DEF t
  <2> QED  BY <1>0, <2>1, <2>2, TaskBecomes
<1>5. CASE Respawn(w) \/ WorkerEnds(w)
  <2>1. PICK t : /\ task' = [task EXCEPT ![w] = t]
                 /\ t = Down \/ t = [Down EXCEPT !.pc = "loop"]
    BY <1>5 DEF Respawn, WorkerEnds
  <2>2. Shaped(t) /\ t.todo = <<>>
    <3>1. t.todo = <<>> /\ t.pc # "handle"
      BY <2>1 DEF Down
    <3>2. Down \in Task
      BY <1>1 DEF Down, Task
    <3>3. [Down EXCEPT !.pc = "loop"] \in Task
      BY <3>2 DEF Task
    <3> QED  BY <2>1, <3>1, <3>2, <3>3 DEF Shaped
  <2>3. Kept /\ group' = group /\ stream' = stream /\ pel' = pel
    BY <1>2, <1>3, <1>5 DEF Respawn, WorkerEnds
  <2> QED  BY <1>0, <1>1, <2>1, <2>2, <2>3, TaskBecomes
<1>6. CASE Reclaim(w)
  <2>0. Kept /\ group' = group /\ stream' = stream /\ pel' = pel
        /\ task[w].pc = "loop" /\ task[w].todo = <<>>
    BY <1>0, <1>3, <1>6 DEF Reclaim, At, Shaped
  <2>1. CASE Move(w, "backoff")
    <3> DEFINE t == [task[w] EXCEPT !.pc = "backoff"]
    <3>1. Shaped(t) /\ t.todo = <<>> /\ task' = [task EXCEPT ![w] = t]
      BY <1>0, <2>0, <2>1 DEF Shaped, Task, Move
    <3> HIDE DEF t
    <3> QED  BY <1>0, <1>1, <2>0, <3>1, TaskBecomes
  <2>2. CASE task' = [task EXCEPT ![w].pc = "reclaim",
                                  ![w].todo = SetToSeq(pel \ InHand)]
    <3> DEFINE claimed == SetToSeq(pel \ InHand)
               t == [task[w] EXCEPT !.pc = "reclaim", !.todo = claimed]
    <3>1. IsFiniteSet(pel \ InHand)
      BY <1>0, FS_Subset
    <3>2. /\ claimed \in Seq(pel \ InHand)
          /\ ToSet(claimed) \subseteq pel
      BY <3>1, SetToSeqFacts
    <3>3. claimed \in Seq(Delivery)
      BY <1>0, <3>2
    <3> HIDE DEF claimed
    <3>4. Shaped(t) /\ t.todo = claimed /\ task' = [task EXCEPT ![w] = t]
      BY <1>0, <2>2, <3>3 DEF Shaped, Task, claimed
    <3> HIDE DEF t
    <3> QED  BY <1>0, <2>0, <3>2, <3>4, TaskBecomes
  <2> QED  BY <1>6, <2>1, <2>2 DEF Reclaim
<1>7. CASE Read(w)
  <2>0. Kept /\ group' = group /\ task[w].todo = <<>>
    BY <1>0, <1>3, <1>7 DEF Read, At, Shaped
  <2>1. ASSUME NEW p \in {"backoff", "loop"},
               task' = [task EXCEPT ![w].pc = p, ![w].due = FALSE],
               stream' = stream, pel' = pel
        PROVE  ShardTypes' /\ Entries' \subseteq Entries
    <3> DEFINE t == [task[w] EXCEPT !.pc = p, !.due = FALSE]
    <3>1. Shaped(t) /\ t.todo = <<>> /\ task' = [task EXCEPT ![w] = t]
      BY <1>0, <2>0, <2>1 DEF Shaped, Task
    <3> HIDE DEF t
    <3> QED  BY <1>0, <1>1, <2>0, <2>1, <3>1, TaskBecomes
  <2>2. ASSUME stream # <<>>, stream' = Tail(stream), pel' = pel \cup {Head(stream)},
               task' = [task EXCEPT ![w].pc = "handle", ![w].due = FALSE,
                                    ![w].todo = <<Head(stream)>>]
        PROVE  ShardTypes' /\ Entries' \subseteq Entries
    <3> DEFINE x == Head(stream)
               t == [task[w] EXCEPT !.pc = "handle", !.due = FALSE, !.todo = <<x>>]
    <3>1. /\ Tail(stream) \in Seq(Delivery) /\ x \in Delivery
          /\ x \in Entries /\ ToSet(Tail(stream)) \subseteq Entries
      BY <1>0, <2>2, TailSet
    <3>2. IsFiniteSet(pel \cup {x})
      BY <1>0, FS_AddElement
    <3>3. ToSet(<<x>>) = {x} /\ <<x>> \in Seq(Delivery) /\ Len(<<x>>) = 1
      BY <3>1 DEF ToSet
    <3>4. Shaped(t) /\ t.todo = <<x>> /\ task' = [task EXCEPT ![w] = t]
      <4>1. t \in Task /\ t.todo = <<x>> /\ t.pc = "handle"
        BY <1>0, <3>3 DEF Task
      <4>2. task' = [task EXCEPT ![w] = t]
        BY <2>2
      <4> QED  BY <3>3, <4>1, <4>2 DEF Shaped
    <3> HIDE DEF x
    <3>5. stream' = Tail(stream) /\ pel' = pel \cup {x}
      BY <2>2 DEF x
    <3> HIDE DEF t
    <3> QED  BY <1>0, <2>0, <3>1, <3>2, <3>3, <3>4, <3>5, TaskBecomes
  <2> QED  BY <1>7, <2>0, <2>1, <2>2 DEF Read
<1>8. CASE HandleAck(w) \/ HandleError(w)
  <2> DEFINE t == [task[w] EXCEPT !.todo = Tail(@),
                                  !.pc = IF @ = "handle" THEN "loop" ELSE @]
  <2>1. /\ Kept /\ group' = group /\ stream' = stream
        /\ pel' = pel \/ pel' = pel \ {Head(task[w].todo)}
        /\ task[w].todo # <<>>
        /\ task' = [task EXCEPT ![w] = t]
    BY <1>0, <1>2, <1>3, <1>8 DEF HandleAck, HandleError, Advance, Handling
  <2>2. /\ Tail(task[w].todo) \in Seq(Delivery)
        /\ ToSet(Tail(task[w].todo)) \subseteq ToSet(task[w].todo)
        /\ Len(Tail(task[w].todo)) = Len(task[w].todo) - 1
    BY <1>0, <2>1, TailSet DEF Task
  <2>3. t.todo = Tail(task[w].todo)
    BY <1>0 DEF Task
  <2>4. Shaped(t)
    <3>1. t \in Task
      BY <1>0, <2>2 DEF Task
    <3>2. CASE task[w].pc = "handle"
      <4>1. Tail(task[w].todo) = <<>>
        <5>1. Len(Tail(task[w].todo)) = 0
          BY <1>0, <2>2, <3>2 DEF Shaped
        <5> QED  BY <2>2, <5>1, EmptySeq
      <4>2. t.pc = "loop"
        BY <1>0, <3>2 DEF Task
      <4> QED  BY <2>3, <3>1, <4>1, <4>2 DEF Shaped
    <3>3. CASE task[w].pc # "handle"
      <4>1. t.pc = task[w].pc
        BY <1>0, <3>3 DEF Task
      <4> QED  BY <1>0, <2>1, <3>1, <3>3, <4>1 DEF Shaped
    <3> QED  BY <3>2, <3>3
  <2>5. IsFiniteSet(pel') /\ pel' \subseteq pel
    BY <1>0, <2>1, FS_Subset
  <2> HIDE DEF t
  <2> QED  BY <1>0, <2>1, <2>2, <2>3, <2>4, <2>5, TaskBecomes
<1>9. CASE AckError(w) \/ TaskEnds(w)
  <2>1. PICK p \in {"backoff", "ended"} :
            task' = [task EXCEPT ![w].pc = p, ![w].todo = <<>>]
    BY <1>9 DEF AckError, TaskEnds
  <2> DEFINE t == [task[w] EXCEPT !.pc = p, !.todo = <<>>]
  <2>2. Shaped(t) /\ t.todo = <<>> /\ task' = [task EXCEPT ![w] = t]
    <3>1. t \in Task /\ t.todo = <<>> /\ t.pc # "handle"
      BY <1>0, <1>1 DEF Task
    <3> QED  BY <2>1, <3>1 DEF Shaped
  <2>3. Kept /\ group' = group /\ stream' = stream /\ pel' = pel
    BY <1>2, <1>3, <1>9 DEF AckError, TaskEnds
  <2> HIDE DEF t
  <2> QED  BY <1>0, <1>1, <2>2, <2>3, TaskBecomes
<1>10. CASE ReclaimDue(w) \/ Signal(w)
  <2>1. PICK t : /\ task' = [task EXCEPT ![w] = t]
                 /\ \/ t = [task[w] EXCEPT !.due = TRUE]
                    \/ t = [task[w] EXCEPT !.stop = TRUE]
    BY <1>10 DEF ReclaimDue, Signal
  <2>2. Shaped(t) /\ t.todo = task[w].todo
    BY <1>0, <2>1 DEF Shaped, Task
  <2>3. Kept /\ group' = group /\ stream' = stream /\ pel' = pel
    BY <1>2, <1>3, <1>10 DEF ReclaimDue, Signal
  <2> QED  BY <1>0, <2>1, <2>2, <2>3, TaskBecomes
<1> QED
  BY <1>4, <1>5, <1>6, <1>7, <1>8, <1>9, <1>10 DEF WorkerStep, Progress

(***************************************************************************)
(* Redis and the workers as the API sees them: an entry is new only if a   *)
(* request just added it, and a wipe is not forgotten.                     *)
(***************************************************************************)
Added(d) == \E r \in Requests : InReq(r, "xadd") /\ d = <<r, req[r].cur>>

ShardKeeps ==
    /\ ShardTypes'
    /\ \A d \in Entries' : d \in Entries \/ Added(d)
    /\ spent'.wipes >= spent.wipes

\* Nothing changes in Redis and the workers.
LEMMA ShardStutters ==
    ASSUME ShardTypes, UNCHANGED shard
    PROVE  ShardKeeps
<1>1. ShardTypes' /\ Entries' = Entries
  BY DEF shard, ShardTypes, Entries, InHand, Handling, At
<1> QED  BY <1>1 DEF ShardKeeps, shard, ShardTypes

\* A fault of the API only counts.
LEMMA ShardFails ==
    ASSUME ShardTypes, Fail,
           UNCHANGED <<up, group, stream, pel, task, handled, wiped>>
    PROVE  ShardKeeps /\ spent'.wipes = spent.wipes
<1>1. /\ spent \in [outages : Nat, wipes : Nat, failures : Nat]
      /\ spent' = [spent EXCEPT !.failures = @ + 1]
  BY DEF Fail, ShardTypes
<1>2. /\ spent' \in [outages : Nat, wipes : Nat, failures : Nat]
      /\ spent'.failures = spent.failures + 1 /\ spent'.wipes = spent.wipes
      /\ spent'.outages = spent.outages
  BY <1>1
<1>3. ShardTypes' /\ Entries' = Entries
  BY <1>2 DEF ShardTypes, Entries, InHand, Handling, At
<1> QED  BY <1>1, <1>2, <1>3 DEF ShardKeeps

\* Every step keeps the shard so.
LEMMA ShardStep ==
    ASSUME ShardTypes, ApiTypes, [Next]_intake
    PROVE  ShardKeeps
<1>0. /\ spent \in [outages : Nat, wipes : Nat, failures : Nat]
      /\ stream \in Seq(Delivery) /\ up \in BOOLEAN
      /\ task \in [Workers -> Task]
      /\ pel \in SUBSET Delivery
  BY DEF ShardTypes
<1>1. ASSUME NEW w \in Workers, WorkerStep(w) PROVE ShardKeeps
  BY <1>0, <1>1, WorkerKeeps DEF ShardKeeps
<1>2. CASE Outage
  <2>1. /\ spent' \in [outages : Nat, wipes : Nat, failures : Nat]
        /\ spent'.outages = spent.outages + 1
        /\ spent'.wipes = spent.wipes /\ spent'.failures = spent.failures
    BY <1>0, <1>2 DEF Outage
  <2>2. ShardTypes' /\ Entries' = Entries
    BY <1>2, <2>1 DEF Outage, ShardTypes, Entries, InHand, Handling, At
  <2> QED  BY <1>0, <2>1, <2>2 DEF ShardKeeps
<1>3. CASE Recover
  <2>1. ShardTypes' /\ Entries' = Entries
    BY <1>3 DEF Recover, ShardTypes, Entries, InHand, Handling, At
  <2> QED  BY <1>0, <1>3, <2>1 DEF Recover, ShardKeeps
<1>4. CASE RecoverEmpty
  <2>1. /\ spent' \in [outages : Nat, wipes : Nat, failures : Nat]
        /\ spent'.wipes = spent.wipes + 1
        /\ spent'.outages = spent.outages /\ spent'.failures = spent.failures
    BY <1>0, <1>4 DEF RecoverEmpty
  <2>2. /\ stream' = <<>> /\ pel' = {} /\ task' = task /\ up' = TRUE
        /\ group' = FALSE
        /\ <<>> \in Seq(Delivery) /\ IsFiniteSet({}) /\ ToSet(<<>>) = {}
    BY <1>4, FS_EmptySet DEF RecoverEmpty, ToSet
  <2>3. ShardTypes'
    BY <2>1, <2>2 DEF ShardTypes, Handling, At
  <2>4. Entries' \subseteq Entries
    BY <2>2 DEF Entries, InHand
  <2> QED  BY <1>0, <2>1, <2>2, <2>3, <2>4 DEF ShardKeeps
<1>5. ASSUME NEW r \in Requests, Xadd(r) PROVE ShardKeeps
  <2>1. CASE UNCHANGED stream
    <3>1. UNCHANGED shard
      BY <1>5, <2>1 DEF Xadd, shard
    <3> QED  BY <3>1, ShardStutters
  <2>2. CASE stream' = Append(stream, <<r, req[r].cur>>)
    <3> DEFINE d == <<r, req[r].cur>>
    <3>1. d \in Delivery
      BY <1>5 DEF Xadd, InReq, ApiTypes, Delivery
    <3>2. /\ stream' \in Seq(Delivery)
          /\ ToSet(stream') \subseteq ToSet(stream) \cup {d}
      <4>1. stream' = Append(stream, d)
        BY <2>2
      <4> HIDE DEF d
      <4> QED  BY <1>0, <3>1, <4>1, AppendSet
    <3>3. UNCHANGED <<up, group, pel, task, spent>>
      BY <1>5 DEF Xadd
    <3>4. ShardTypes'
      BY <3>2, <3>3 DEF ShardTypes, Handling, At
    <3>5. Entries' \subseteq Entries \cup {d}
      BY <3>2, <3>3 DEF Entries, InHand
    <3>6. Added(d)
      BY <1>5 DEF Xadd, Added
    <3> QED  BY <1>0, <3>3, <3>4, <3>5, <3>6 DEF ShardKeeps
  <2> QED  BY <1>5, <2>1, <2>2 DEF Xadd
<1>6. ASSUME NEW r \in Requests, ApiDies(r) PROVE ShardKeeps
  BY <1>6, ShardFails DEF ApiDies
<1>7. CASE UNCHANGED shard
  BY <1>7, ShardStutters
<1> QED
  BY <1>1, <1>2, <1>3, <1>4, <1>5, <1>6, <1>7
  DEF Next, intake, shard, RequestStep, Lookup, Select, Commit, Resolve, NextDelivery,
      Push, Answer, CreateEndpoint, PatchEndpoint, DeleteEndpoint, Administer,
      RedisStep

-----------------------------------------------------------------------------
(***************************************************************************)
(* The API.  What a step makes of a request: the call it comes to is one   *)
(* that the code can come to from where it was, with the data it had.      *)
(***************************************************************************)
LEMMA EndpointStep ==
    ASSUME ApiTypes, [Next]_intake
    PROVE  /\ endpoint' \in [Endpoints -> {"none", "active", "paused", "deleted"}]
           /\ \A e \in Endpoints : endpoint[e] = "deleted" => endpoint'[e] = "deleted"
           /\ \A d \in rows : d \notin rows' => endpoint'[d[2]] = "deleted"
           /\ events \subseteq events'
<1>0. endpoint \in [Endpoints -> {"none", "active", "paused", "deleted"}]
      /\ rows \in SUBSET (events \X Endpoints)
  BY DEF ApiTypes
<1>1. ASSUME NEW e \in Endpoints, CreateEndpoint(e) \/ PatchEndpoint(e) \/ DeleteEndpoint(e)
      PROVE  /\ endpoint' \in [Endpoints -> {"none", "active", "paused", "deleted"}]
             /\ \A f \in Endpoints : endpoint[f] = "deleted" => endpoint'[f] = "deleted"
             /\ \A d \in rows : d \notin rows' => endpoint'[d[2]] = "deleted"
             /\ events' = events
  BY <1>0, <1>1
  DEF CreateEndpoint, PatchEndpoint, DeleteEndpoint, Administer, Exists
<1>2. CASE endpoint' = endpoint /\ rows \subseteq rows' /\ events \subseteq events'
  BY <1>0, <1>2
<1> QED
  BY <1>1, <1>2
  DEF Next, intake, RequestStep, Lookup, Select, Commit, Resolve, NextDelivery, Push,
      Xadd, Answer, ApiDies, RedisStep, api

\* A well-formed request.
Formed(q) ==
    /\ q \in Request
    /\ q.pc \in {"push", "xadd"} <=> q.cur \in Endpoints
    /\ q.pc = "done" <=> q.answer \in Requests

\* A step of request r makes it q and leaves the others alone.
Becomes(r, q) ==
    /\ Formed(q)
    /\ req' = [req EXCEPT ![r] = q]
    /\ req'[r] = q
    /\ \A s \in Requests : s # r => req'[s] = req[s]

\* A request that becomes the well-formed q.
LEMMA BecomesFormed ==
    ASSUME ApiTypes, NEW r \in Requests, NEW q, Formed(q), req' = [req EXCEPT ![r] = q]
    PROVE  Becomes(r, q)
  BY DEF ApiTypes, Becomes

\* A request that ends: with an event, with an error, or with its commit refused.
LEMMA Ends ==
    ASSUME NEW p \in {"error", "conflict"}, NEW q, q = [Arriving EXCEPT !.pc = p]
    PROVE  Formed(q) /\ q.pc = p
<1>1. None \notin Endpoints /\ None \notin Requests
  BY IngestAssumption
<1>2. q.pc = p /\ q.cur = None /\ q.answer = None
  BY DEF Arriving
<1>3. q \in Request
  BY DEF Arriving, Request
<1> QED  BY <1>1, <1>2, <1>3 DEF Formed

LEMMA EndsWith ==
    ASSUME NEW s \in Requests, NEW q, q = [Arriving EXCEPT !.pc = "done", !.answer = s]
    PROVE  Formed(q) /\ q.pc = "done" /\ q.answer = s
<1>1. None \notin Endpoints /\ None \notin Requests
  BY IngestAssumption
<1>2. q.pc = "done" /\ q.cur = None /\ q.answer = s
  BY DEF Arriving
<1>3. q \in Request
  BY DEF Arriving, Request
<1> QED  BY <1>1, <1>2, <1>3 DEF Formed

\* A request that goes on has no answer yet.
LEMMA GoesOn ==
    ASSUME ApiTypes, NEW r \in Requests, req[r].pc # "done",
           NEW q \in Request, q.answer = req[r].answer,
           q.pc \in {"select", "commit", "enqueue", "push", "xadd"},
           q.pc \in {"push", "xadd"} <=> q.cur \in Endpoints
    PROVE  Formed(q)
  BY DEF ApiTypes, InReq, Formed

(***************************************************************************)
(* The calls a request can come to, each with what it read and wrote.      *)
(***************************************************************************)
Accepted(r, q) ==
    /\ q.pc = "done" /\ q.answer \in events
    /\ q.answer = r \/ SameKey(r, q.answer)
    /\ UNCHANGED <<events, rows, queue>>
Refused(r, q) ==
    /\ q.pc = "error"
    /\ UNCHANGED <<events, rows, queue>>
LooksFurther(r, q) ==
    InReq(r, "new") /\ q.pc = "select" /\ UNCHANGED <<events, rows, queue>>
Inserts(r, q) ==
    /\ InReq(r, "select") /\ q.pc = "commit"
    /\ Existing(r) = {} /\ ~Contended(r)
    /\ UNCHANGED <<events, rows, queue>>
CommitFails(r, q) ==
    /\ InReq(r, "commit") /\ q.pc = "conflict"
    /\ UNCHANGED <<events, rows, queue>>
Commits(r, q) ==
    /\ InReq(r, "commit") /\ q.pc = "enqueue" /\ q.cur = None
    /\ events' = events \cup {r} /\ rows' = rows \cup ({r} \X q.todo)
    /\ UNCHANGED queue
Enqueues(r, q) ==
    /\ Enqueueing(r) /\ q.pc \in {"enqueue", "push", "xadd"}
    /\ q.todo \subseteq req[r].todo
    /\ q.cur = None \/ q.cur = req[r].cur \/ q.cur \in req[r].todo
    /\ q.pc = "xadd" /\ q.cur \in Ordered => <<r, q.cur>> \in queue'
    /\ queue \subseteq queue'
    /\ UNCHANGED <<events, rows>>

Call(r, q) ==
    \/ Accepted(r, q) \/ Refused(r, q) \/ LooksFurther(r, q) \/ Inserts(r, q)
    \/ CommitFails(r, q) \/ Commits(r, q) \/ Enqueues(r, q)

\* The code comes to no other.
LEMMA RequestCalls ==
    ASSUME ShardTypes, ApiTypes, KeyInv, NEW r \in Requests,
           RequestStep(r) \/ ApiDies(r)
    PROVE  /\ \E q : Becomes(r, q) /\ Call(r, q)
           /\ UNCHANGED endpoint
<1>0. /\ req \in [Requests -> Request] /\ req[r] \in Request
      /\ None \notin Endpoints /\ None \notin Requests /\ events \subseteq Requests
      /\ req[r].cur \in Endpoints \cup {None} /\ req[r].todo \in SUBSET Endpoints
      /\ spent \in [outages : Nat, wipes : Nat, failures : Nat]
  BY IngestAssumption DEF ApiTypes, Request, ShardTypes
<1>1. UNCHANGED endpoint
  BY DEF RequestStep, Lookup, Select, Commit, Resolve, NextDelivery, Push, Xadd, Answer,
         ApiDies
<1> SUFFICES \E q : Becomes(r, q) /\ Call(r, q)
  BY <1>1
<1>2. ASSUME NEW s \in events, Accept(r, s), s = r \/ SameKey(r, s),
             UNCHANGED <<events, rows, queue>>
      PROVE  \E q : Becomes(r, q) /\ Call(r, q)
  <2> DEFINE q == [Arriving EXCEPT !.pc = "done", !.answer = s]
  <2>1. req' = [req EXCEPT ![r] = q]
    BY <1>2 DEF Accept
  <2>2. Formed(q) /\ q.pc = "done" /\ q.answer = s
    BY <1>0, EndsWith
  <2> HIDE DEF q
  <2> QED  BY <1>2, <2>1, <2>2, BecomesFormed DEF Call, Accepted
<1>3. ASSUME Refuse(r), UNCHANGED <<events, rows, queue>>
      PROVE  \E q : Becomes(r, q) /\ Call(r, q)
  <2> DEFINE q == [Arriving EXCEPT !.pc = "error"]
  <2>1. req' = [req EXCEPT ![r] = q]
    BY <1>3 DEF Refuse
  <2>2. Formed(q) /\ q.pc = "error"
    BY Ends
  <2> HIDE DEF q
  <2> QED  BY <1>3, <2>1, <2>2, BecomesFormed DEF Call, Refused
<1>4. CASE Lookup(r)
  <2>1. CASE req' = [req EXCEPT ![r].pc = "select"]
    <3> DEFINE q == [req[r] EXCEPT !.pc = "select"]
    <3>1. /\ InReq(r, "new") /\ UNCHANGED <<events, rows, queue>>
          /\ req' = [req EXCEPT ![r] = q]
      BY <1>0, <1>4, <2>1 DEF Lookup
    <3>2. /\ q \in Request /\ q.pc = "select" /\ q.cur = req[r].cur
          /\ q.answer = req[r].answer
      BY <1>0 DEF Request
    <3> HIDE DEF q
    <3>3. Becomes(r, q)
      BY <3>1, <3>2, GoesOn, BecomesFormed DEF InReq, ApiTypes
    <3> QED  BY <3>1, <3>2, <3>3 DEF Call, LooksFurther
  <2>2. CASE \E s \in Existing(r) : Accept(r, s)
    BY <1>2, <1>4, <2>2 DEF Lookup, Existing
  <2> QED  BY <1>4, <2>1, <2>2 DEF Lookup
<1>5. CASE Select(r)
  <2>0. InReq(r, "select") /\ ~Contended(r) /\ UNCHANGED <<events, rows, queue>>
        /\ r \notin events
    BY <1>5 DEF Select, KeyInv, Undecided, InReq
  <2>1. CASE Taken(r) /\ Refuse(r)
    <3>1. Existing(r) \ {r} # {}
      BY <2>0, <2>1 DEF Taken, Existing
    <3> QED  BY <1>3, <2>0, <2>1, <3>1
  <2>2. CASE ~Taken(r) /\ req' = [req EXCEPT ![r].pc = "commit",
                       ![r].todo = {e \in Endpoints : endpoint[e] = "active"}]
    <3> DEFINE t == {e \in Endpoints : endpoint[e] = "active"}
               q == [req[r] EXCEPT !.pc = "commit", !.todo = t]
    <3>1. req' = [req EXCEPT ![r] = q] /\ t \in SUBSET Endpoints
      BY <1>0, <2>2
    <3> HIDE DEF t
    <3>2. /\ q \in Request /\ q.pc = "commit" /\ q.cur = req[r].cur
          /\ q.answer = req[r].answer
      BY <1>0, <3>1 DEF Request
    <3> HIDE DEF q
    <3>3. Becomes(r, q)
      BY <2>0, <3>1, <3>2, GoesOn, BecomesFormed DEF InReq, ApiTypes
    <3> QED  BY <2>0, <2>2, <3>2, <3>3 DEF Call, Inserts, Taken
  <2> QED  BY <1>5, <2>1, <2>2 DEF Select
<1>6. CASE Commit(r)
  <2>0. InReq(r, "commit") /\ UNCHANGED queue
        /\ req[r].pc # "done" /\ req[r].cur \notin Endpoints /\ req[r].cur = None
    BY <1>0, <1>6 DEF Commit, InReq, ApiTypes
  <2>1. ASSUME \E e \in req[r].todo : endpoint[e] = "deleted", UNCHANGED <<events, rows>>,
               req' = [req EXCEPT ![r] = [Arriving EXCEPT !.pc = "conflict"]]
        PROVE  \E q : Becomes(r, q) /\ Call(r, q)
    <3> DEFINE q == [Arriving EXCEPT !.pc = "conflict"]
    <3>1. req' = [req EXCEPT ![r] = q]
      BY <2>1
    <3>2. Formed(q) /\ q.pc = "conflict"
      BY Ends
    <3> HIDE DEF q
    <3> QED  BY <1>0, <2>0, <2>1, <3>1, <3>2, BecomesFormed DEF Call, CommitFails
  <2>2. ASSUME events' = events \cup {r}, rows' = rows \cup ({r} \X req[r].todo),
               req' = [req EXCEPT ![r].pc = "enqueue"]
        PROVE  \E q : Becomes(r, q) /\ Call(r, q)
    <3> DEFINE q == [req[r] EXCEPT !.pc = "enqueue"]
    <3>1. req' = [req EXCEPT ![r] = q]
      BY <1>0, <2>2
    <3>2. /\ q \in Request /\ q.pc = "enqueue" /\ q.cur = req[r].cur
          /\ q.todo = req[r].todo /\ q.answer = req[r].answer
      BY <1>0 DEF Request
    <3> HIDE DEF q
    <3>3. Becomes(r, q)
      BY <2>0, <3>1, <3>2, GoesOn, BecomesFormed
    <3> QED  BY <2>0, <2>2, <3>2, <3>3 DEF Call, Commits
  <2> QED  BY <1>6, <2>1, <2>2 DEF Commit
<1>7. CASE Resolve(r)
  <2>1. CASE Existing(r) = {} /\ Refuse(r)
    BY <1>3, <1>7, <2>1 DEF Resolve
  <2>2. CASE \E s \in Existing(r) : Accept(r, s)
    BY <1>2, <1>7, <2>2 DEF Resolve, Existing
  <2> QED  BY <1>7, <2>1, <2>2 DEF Resolve
<1>8. ASSUME NEW e \in Endpoints, NextDelivery(r, e) PROVE \E q : Becomes(r, q) /\ Call(r, q)
  <2> DEFINE p == IF e \in Ordered THEN "push" ELSE "xadd"
             t == req[r].todo \ {e}
             q == [req[r] EXCEPT !.cur = e, !.todo = t, !.pc = p]
  <2>1. req' = [req EXCEPT ![r] = q]
    BY <1>0, <1>8 DEF NextDelivery
  <2>2. /\ InReq(r, "enqueue") /\ e \in req[r].todo /\ e \in Endpoints
        /\ UNCHANGED <<events, rows, queue>>
    BY <1>8 DEF NextDelivery
  <2>3. /\ p \in {"push", "xadd"}
        /\ p = "xadd" => e \notin Ordered
        /\ t \in SUBSET Endpoints /\ t \subseteq req[r].todo
    BY <1>0
  <2> HIDE DEF p, t
  <2>4. /\ q \in Request /\ q.pc = p /\ q.cur = e /\ q.todo = t
        /\ q.answer = req[r].answer
    BY <1>0, <2>2, <2>3 DEF Request
  <2> HIDE DEF q
  <2>5. Becomes(r, q)
    BY <2>1, <2>2, <2>3, <2>4, GoesOn, BecomesFormed DEF InReq
  <2>6. Enqueues(r, q)
    BY <2>2, <2>3, <2>4 DEF Enqueues, Enqueueing, InReq
  <2> QED  BY <2>5, <2>6 DEF Call
<1>10. CASE Push(r)
  <2>1. CASE ~up /\ Abandon(r) /\ UNCHANGED queue
    BY <1>3, <1>10, <2>1 DEF Push, Abandon, shard
  <2>2. ASSUME queue' = queue \cup {<<r, req[r].cur>>}, req' = [req EXCEPT ![r].pc = "xadd"]
        PROVE  \E q : Becomes(r, q) /\ Call(r, q)
    <3>1. /\ InReq(r, "push") /\ req[r].pc # "done" /\ req[r].cur \in Endpoints
          /\ UNCHANGED <<events, rows>>
      BY <1>10 DEF Push, InReq, ApiTypes
    <3> DEFINE q == [req[r] EXCEPT !.pc = "xadd"]
    <3>2. req' = [req EXCEPT ![r] = q]
      BY <1>0, <2>2
    <3>3. /\ q \in Request /\ q.pc = "xadd" /\ q.cur = req[r].cur
          /\ q.todo = req[r].todo /\ q.answer = req[r].answer
      BY <1>0 DEF Request
    <3> HIDE DEF q
    <3>4. Becomes(r, q)
      BY <3>1, <3>2, <3>3, GoesOn, BecomesFormed
    <3>5. Enqueues(r, q)
      BY <2>2, <3>1, <3>3 DEF Enqueues, Enqueueing, InReq
    <3> QED  BY <3>4, <3>5 DEF Call
  <2> QED  BY <1>10, <2>1, <2>2 DEF Push
<1>11. CASE Xadd(r)
  <2>1. CASE ~up /\ Abandon(r)
    BY <1>3, <1>11, <2>1 DEF Xadd, Abandon
  <2>2. ASSUME req' = [req EXCEPT ![r].pc = "enqueue", ![r].cur = None]
        PROVE  \E q : Becomes(r, q) /\ Call(r, q)
    <3>1. /\ InReq(r, "xadd") /\ req[r].pc # "done"
          /\ UNCHANGED <<events, rows, queue>>
      BY <1>11 DEF Xadd, InReq
    <3> DEFINE q == [req[r] EXCEPT !.pc = "enqueue", !.cur = None]
    <3>2. req' = [req EXCEPT ![r] = q]
      BY <1>0, <2>2
    <3>3. /\ q \in Request /\ q.pc = "enqueue" /\ q.cur = None
          /\ q.todo = req[r].todo /\ q.answer = req[r].answer
      BY <1>0 DEF Request
    <3> HIDE DEF q
    <3>4. Becomes(r, q)
      BY <1>0, <3>1, <3>2, <3>3, GoesOn, BecomesFormed
    <3>5. Enqueues(r, q)
      BY <1>0, <3>1, <3>3 DEF Enqueues, Enqueueing, InReq
    <3> QED  BY <3>4, <3>5 DEF Call
  <2> QED  BY <1>11, <2>1, <2>2 DEF Xadd
<1>12. CASE Answer(r)
  <2>1. r \in events /\ Accept(r, r) /\ UNCHANGED <<events, rows, queue>>
    BY <1>12 DEF Answer, KeyInv, Enqueueing, InReq
  <2> QED  BY <1>2, <2>1
<1>13. CASE ApiDies(r)
  <2>1. Refuse(r) /\ UNCHANGED <<events, rows, queue>>
    BY <1>13 DEF ApiDies, Abandon
  <2> QED  BY <1>3, <2>1
<1> QED
  BY <1>4, <1>5, <1>6, <1>7, <1>8, <1>10, <1>11, <1>12, <1>13 DEF RequestStep

\* A step is a call of one request, or of somebody who touches none of them.
LEMMA Steps ==
    ASSUME ShardTypes, ApiTypes, KeyInv, [Next]_intake
    PROVE  \/ \E r \in Requests : \E q : Becomes(r, q) /\ Call(r, q)
           \/ /\ UNCHANGED <<req, events>> /\ rows' \subseteq rows
              /\ queue' = queue \/ spent'.wipes > 0
<1>1. ASSUME NEW r \in Requests, RequestStep(r) \/ ApiDies(r)
      PROVE  \E q : Becomes(r, q) /\ Call(r, q)
  BY <1>1, RequestCalls
<1>2. CASE RedisStep /\ UNCHANGED api
  <2>1. ASSUME RecoverEmpty PROVE spent'.wipes > 0
    BY <2>1 DEF RecoverEmpty, ShardTypes
  <2> QED  BY <1>2, <2>1 DEF RedisStep, api
<1>3. CASE \E w \in Workers : WorkerStep(w) /\ UNCHANGED <<api, queue>>
  BY <1>3 DEF api
<1>4. CASE \E e \in Endpoints : CreateEndpoint(e) \/ PatchEndpoint(e) \/ DeleteEndpoint(e)
  BY <1>4 DEF CreateEndpoint, PatchEndpoint, DeleteEndpoint, Administer
<1>5. CASE UNCHANGED intake
  BY <1>5 DEF intake
<1> QED  BY <1>1, <1>2, <1>3, <1>4, <1>5 DEF Next

\* The types, and who may commit.
LEMMA ApiTypesStep ==
    ASSUME ShardTypes, ApiTypes, KeyInv, [Next]_intake
    PROVE  ApiTypes'
<1>0. /\ endpoint' \in [Endpoints -> {"none", "active", "paused", "deleted"}]
      /\ events \in SUBSET Requests /\ rows \in SUBSET (events \X Endpoints)
      /\ req \in [Requests -> Request]
  BY EndpointStep DEF ApiTypes
<1>1. ASSUME NEW r \in Requests, NEW q, Becomes(r, q), Call(r, q) PROVE ApiTypes'
  <2>1. req' \in [Requests -> Request] /\ q \in Request
    BY <1>0, <1>1 DEF Becomes, Formed
  <2>2. \A s \in Requests :
           /\ req'[s].pc \in {"push", "xadd"} <=> req'[s].cur \in Endpoints
           /\ InReq(s, "done")' <=> req'[s].answer \in Requests
    BY <1>1 DEF Becomes, Formed, InReq, ApiTypes
  <2>3. events' \in SUBSET Requests /\ rows' \in SUBSET (events' \X Endpoints)
    <3>1. CASE UNCHANGED <<events, rows>>
      BY <1>0, <3>1
    <3>2. CASE Commits(r, q)
      <4>1. q.todo \subseteq Endpoints
        BY <2>1 DEF Request
      <4> QED  BY <1>0, <3>2, <4>1 DEF Commits
    <3> QED
      BY <1>1, <3>1, <3>2
      DEF Call, Accepted, Refused, LooksFurther, Inserts, CommitFails, Enqueues
  <2> QED  BY <1>0, <2>1, <2>2, <2>3 DEF ApiTypes
<1>2. ASSUME UNCHANGED <<req, events>>, rows' \subseteq rows PROVE ApiTypes'
  BY <1>0, <1>2 DEF ApiTypes, InReq
<1> QED  BY <1>1, <1>2, Steps

LEMMA KeyStep ==
    ASSUME ShardTypes, ApiTypes, KeyInv, AnswersAgree, [Next]_intake
    PROVE  KeyInv' /\ AnswersAgree'
<1>0. events \in SUBSET Requests /\ req \in [Requests -> Request] /\ ApiTypes'
  BY ApiTypesStep DEF ApiTypes
<1>1. ASSUME NEW r \in Requests, NEW q, Becomes(r, q), Call(r, q)
      PROVE  KeyInv' /\ AnswersAgree'
  <2>0. /\ req'[r] = q
        /\ q.pc = "done" <=> q.answer \in Requests
        /\ \A s \in Requests : s # r => req'[s] = req[s]
    BY <1>1 DEF Becomes, Formed
  <2>1. CASE Commits(r, q)
    <3>1. \A s \in events : ~SameKey(r, s)
      BY <2>1 DEF Commits, KeyInv, Existing
    <3>2. \A s, t \in events' : SameKey(s, t) => s = t
      BY <2>1, <3>1 DEF Commits, AnswersAgree, SameKey
    <3>3. \A s \in Requests : InReq(s, "done")' =>
             /\ req'[s].answer \in events'
             /\ req'[s].answer = s \/ SameKey(s, req'[s].answer)
      BY <2>0, <2>1 DEF Commits, AnswersAgree, InReq
    <3>4. \A s \in Requests : /\ Enqueueing(s)' => s \in events'
                              /\ Undecided(s)' => s \notin events'
      BY <2>0, <2>1 DEF Commits, KeyInv, Enqueueing, Undecided
    <3>5. \A s \in Requests : InReq(s, "commit")' => Existing(s)' = {}
      <4>1. ASSUME NEW s \in Requests, InReq(s, "commit")'
            PROVE  s # r /\ InReq(s, "commit") /\ ~SameKey(s, r) /\ Existing(s) = {}
        BY <2>0, <2>1, <4>1 DEF Commits, KeyInv, InReq, SameKey
      <4> QED  BY <2>1, <4>1 DEF Commits, Existing, SameKey
    <3>6. \A s, t \in Requests :
             InReq(s, "commit")' /\ InReq(t, "commit")' /\ SameKey(s, t) => s = t
      BY <2>0, <2>1 DEF Commits, KeyInv, InReq
    <3>7. AnswersAgree'
      BY <3>2, <3>3 DEF AnswersAgree, SameKey
    <3> QED  BY <3>4, <3>5, <3>6, <3>7 DEF KeyInv, SameKey
  <2>2. CASE UNCHANGED events
    <3>1. /\ q.pc \in {"enqueue", "push", "xadd"} => r \in events
          /\ q.pc \in {"new", "select", "commit", "conflict"} => r \notin events
          /\ q.pc = "commit" => Existing(r) = {} /\ ~Contended(r)
          /\ q.pc = "done" => /\ q.answer \in events
                              /\ q.answer = r \/ SameKey(r, q.answer)
      BY <1>1, <2>2
      DEF Call, Accepted, Refused, LooksFurther, Inserts, CommitFails, Commits, Enqueues,
          KeyInv, Enqueueing, Undecided, InReq
    <3>2. \A s \in Requests : /\ Enqueueing(s)' => s \in events'
                              /\ Undecided(s)' => s \notin events'
                              /\ InReq(s, "commit")' => Existing(s)' = {}
      BY <2>0, <2>2, <3>1 DEF KeyInv, Enqueueing, Undecided, InReq, Existing
    <3>3. \A s, t \in Requests :
             InReq(s, "commit")' /\ InReq(t, "commit")' /\ SameKey(s, t) => s = t
      BY <2>0, <3>1 DEF KeyInv, InReq, Contended, SameKey
    <3>4. AnswersAgree'
      BY <2>0, <2>2, <3>1 DEF AnswersAgree, InReq, SameKey
    <3> QED  BY <3>2, <3>3, <3>4 DEF KeyInv, SameKey
  <2> QED
    BY <1>1, <2>1, <2>2
    DEF Call, Accepted, Refused, LooksFurther, Inserts, CommitFails, Enqueues
<1>2. ASSUME UNCHANGED <<req, events>> PROVE KeyInv' /\ AnswersAgree'
  BY <1>2 DEF KeyInv, AnswersAgree, Enqueueing, Undecided, InReq, Existing, SameKey
<1> QED  BY <1>1, <1>2, Steps

\* What is written stays so, or its endpoint is gone.
LEMMA WriteStep ==
    ASSUME ShardTypes, ApiTypes, KeyInv, WriteInv, RowBeforeEntry, [Next]_intake
    PROVE  WriteInv' /\ RowBeforeEntry'
<1>0. /\ Entries \subseteq Delivery /\ rows \subseteq Delivery
      /\ req \in [Requests -> Request]
  BY DEF ShardTypes, ApiTypes, Entries, InHand, Delivery, ToSet, Task
<1>1. \A d \in Delivery : Written(d) => Written(d)'
  BY EndpointStep DEF Written, Delivery
<1>2. RowBeforeEntry'
  <2>1. \A d \in Entries : Written(d)
    BY DEF RowBeforeEntry, Written
  <2>2. ASSUME NEW d, Added(d) PROVE d \in Delivery /\ Written(d)
    <3>1. PICK r \in Requests : InReq(r, "xadd") /\ d = <<r, req[r].cur>>
      BY <2>2 DEF Added
    <3>2. req[r].cur \in Endpoints /\ Enqueueing(r)
      BY <3>1 DEF ApiTypes, InReq, Enqueueing
    <3> QED  BY <3>1, <3>2 DEF WriteInv, Delivery
  <2>3. \A d \in Entries' : Written(d)'
    BY <1>0, <1>1, <2>1, <2>2, ShardStep DEF ShardKeeps
  <2> QED  BY <2>3 DEF RowBeforeEntry, Written
<1>3. ASSUME NEW r \in Requests, NEW q, Becomes(r, q), Call(r, q) PROVE WriteInv'
  <2>0. /\ req'[r] = q /\ q \in Request
        /\ \A s \in Requests : s # r => req'[s] = req[s]
    BY <1>3 DEF Becomes, Formed
  <2>1. ASSUME NEW s \in Requests, s # r, Enqueueing(s)', NEW e \in Endpoints,
               e \in req'[s].todo \/ e = req'[s].cur
        PROVE  Written(<<s, e>>)'
    BY <1>1, <2>0, <2>1 DEF WriteInv, Enqueueing, Delivery
  <2>2. ASSUME Enqueueing(r)', NEW e \in Endpoints, e \in q.todo \/ e = q.cur
        PROVE  Written(<<r, e>>)'
    <3>1. CASE Commits(r, q)
      <4>1. e \in q.todo
        BY <2>2, <3>1, IngestAssumption DEF Commits
      <4> QED  BY <3>1, <4>1 DEF Commits, Written
    <3>2. CASE Enqueues(r, q)
      <4>1. Written(<<r, e>>)
        BY <2>2, <3>2, IngestAssumption DEF Enqueues, WriteInv
      <4> QED  BY <1>1, <4>1 DEF Delivery
    <3> QED
      BY <1>3, <2>0, <2>2, <3>1, <3>2
      DEF Call, Accepted, Refused, LooksFurther, Inserts, CommitFails, Enqueueing
  <2> QED  BY <2>0, <2>1, <2>2 DEF WriteInv
<1>4. ASSUME UNCHANGED <<req, events>> PROVE WriteInv'
  BY <1>1, <1>4 DEF WriteInv, Enqueueing, Delivery
<1> QED  BY <1>2, <1>3, <1>4, Steps

\* An ordered delivery is in its queue before its entry is in the stream.
LEMMA PushStep ==
    ASSUME ShardTypes, ApiTypes, KeyInv, PushInv, QueueBeforeEntry, [Next]_intake
    PROVE  PushInv' /\ QueueBeforeEntry'
<1> SUFFICES ASSUME spent'.wipes = 0
             PROVE  /\ \A s \in Requests : InReq(s, "xadd")' /\ req'[s].cur \in Ordered
                                              => <<s, req'[s].cur>> \in queue'
                    /\ \A d \in Entries' : d[2] \in Ordered => d \in queue'
  BY DEF PushInv, QueueBeforeEntry
<1>0. spent.wipes = 0
  BY ShardStep DEF ShardKeeps, ShardTypes
<1>1. /\ \A s \in Requests : InReq(s, "xadd") /\ req[s].cur \in Ordered
                                => <<s, req[s].cur>> \in queue
      /\ \A d \in Entries : d[2] \in Ordered => d \in queue
  BY <1>0 DEF PushInv, QueueBeforeEntry
<1>2. queue \subseteq queue'
  <2>1. ASSUME NEW r \in Requests, NEW q, Call(r, q) PROVE queue \subseteq queue'
    BY <2>1
    DEF Call, Accepted, Refused, LooksFurther, Inserts, CommitFails, Commits, Enqueues
  <2> QED  BY <2>1, Steps
<1>3. \A d \in Entries' : d[2] \in Ordered => d \in queue'
  <2>1. ASSUME NEW d, Added(d), d[2] \in Ordered PROVE d \in queue
    BY <1>1, <2>1 DEF Added
  <2> QED  BY <1>1, <1>2, <2>1, ShardStep DEF ShardKeeps
<1>4. ASSUME NEW r \in Requests, NEW q, Becomes(r, q), Call(r, q), NEW s \in Requests,
             InReq(s, "xadd")', req'[s].cur \in Ordered
      PROVE  <<s, req'[s].cur>> \in queue'
  <2>1. CASE s = r
    BY <1>4, <2>1
    DEF Becomes, Call, Accepted, Refused, LooksFurther, Inserts, CommitFails, Commits,
        Enqueues, InReq
  <2>2. CASE s # r
    BY <1>1, <1>2, <1>4, <2>2 DEF Becomes, InReq
  <2> QED  BY <2>1, <2>2
<1>5. ASSUME UNCHANGED <<req, events>>, NEW s \in Requests,
             InReq(s, "xadd")', req'[s].cur \in Ordered
      PROVE  <<s, req'[s].cur>> \in queue'
  BY <1>1, <1>2, <1>5 DEF InReq
<1> QED  BY <1>3, <1>4, <1>5, Steps

-----------------------------------------------------------------------------
LEMMA IngestStart == Init => IngestInv
<1> SUFFICES ASSUME Init PROVE IngestInv
  OBVIOUS
<1>0. ToSet(<<>>) = {} /\ <<>> \in Seq(Delivery) /\ IsFiniteSet({})
  BY FS_EmptySet DEF ToSet
<1>1. /\ None \notin Endpoints /\ None \notin Requests
      /\ \A r \in Requests : /\ req[r] = Arriving /\ req[r].pc = "new"
                             /\ req[r].cur = None /\ req[r].answer = None
  BY IngestAssumption DEF Init, Arriving
<1>2. Down \in Task /\ Down.todo = <<>> /\ Down.pc = "down"
  BY <1>0 DEF Down, Task
<1>3. ShardTypes
  <2>1. /\ task = [w \in Workers |-> Down] /\ stream = <<>> /\ pel = {}
        /\ up \in BOOLEAN /\ group \in BOOLEAN
        /\ spent \in [outages : Nat, wipes : Nat, failures : Nat]
    BY DEF Init, ShardInit
  <2> QED  BY <1>0, <1>2, <2>1 DEF ShardTypes, Handling, At
<1>4. Entries = {}
  <2>1. InHand = {}
    BY <1>0, <1>2 DEF Init, ShardInit, InHand
  <2> QED  BY <1>0, <2>1 DEF Entries, Init, ShardInit
<1>5. ApiTypes
  <2>1. Arriving \in Request
    BY DEF Arriving, Request
  <2>2. /\ endpoint \in [Endpoints -> {"none", "active", "paused", "deleted"}]
        /\ events = {} /\ rows = {} /\ req = [r \in Requests |-> Arriving]
    BY DEF Init
  <2> QED  BY <1>1, <2>1, <2>2 DEF ApiTypes, InReq
<1>6. KeyInv /\ AnswersAgree /\ WriteInv
  BY <1>1 DEF Init, KeyInv, AnswersAgree, WriteInv, Enqueueing,
              Undecided, InReq
<1>7. PushInv
  BY <1>1 DEF Init, ShardInit, PushInv, InReq
<1>8. RowBeforeEntry /\ QueueBeforeEntry
  BY <1>4 DEF RowBeforeEntry, QueueBeforeEntry
<1> QED  BY <1>3, <1>5, <1>6, <1>7, <1>8 DEF IngestInv

LEMMA IngestStep == IngestInv /\ [Next]_intake => IngestInv'
<1> SUFFICES ASSUME IngestInv, [Next]_intake PROVE IngestInv'
  OBVIOUS
<1>1. ShardTypes'
  BY ShardStep DEF IngestInv, ShardKeeps
<1> QED
  BY <1>1, ApiTypesStep, KeyStep, WriteStep, PushStep DEF IngestInv

LEMMA IngestAlways == Spec => []IngestInv
  BY IngestStart, IngestStep, PTL DEF Spec

(***************************************************************************)
(* Type correctness: a request has a delivery in hand exactly while it     *)
(* enqueues it and an event to answer with exactly when it succeeded, and  *)
(* a worker task (worker.py, _shard_consumer) has entries in hand only     *)
(* while it handles them.                                                  *)
(***************************************************************************)
THEOREM TypeCorrect == Spec => []TypeOK
<1>1. IngestInv => TypeOK
  <2> SUFFICES ASSUME ShardTypes, ApiTypes PROVE TypeOK
    BY DEF IngestInv
  <2>1. Entries \subseteq Requests \X Endpoints
    BY DEF ShardTypes, Entries, InHand, Delivery, ToSet, Task
  <2>2. \A w \in Workers :
          /\ task[w].pc \in {"down", "loop", "reclaim", "handle", "backoff", "ended"}
          /\ {task[w].due, task[w].stop} \subseteq BOOLEAN
    BY DEF ShardTypes, Task
  <2>3. \A r \in Requests : req[r].todo \subseteq Endpoints
    BY DEF ApiTypes, Request
  <2> QED  BY <2>1, <2>2, <2>3 DEF TypeOK, ShardTypes, ApiTypes
<1> QED  BY <1>1, IngestAlways, PTL

(***************************************************************************)
(* One event per idempotency key: requests that share a key and are        *)
(* accepted are told the same, committed event (ingest_event), whatever    *)
(* the interleaving of their lookups, inserts and commits.                 *)
(***************************************************************************)
THEOREM AnswersAgreeCorrect == Spec => []AnswersAgree
  BY IngestAlways, PTL DEF IngestInv

(***************************************************************************)
(* A worker never sees a delivery that is not in Postgres, except one      *)
(* whose endpoint was deleted since: ingest_event commits before it adds   *)
(* to the stream, and no reclaim, crash or lost task invents an entry.     *)
(***************************************************************************)
THEOREM RowBeforeEntryCorrect == Spec => []RowBeforeEntry
  BY IngestAlways, PTL DEF IngestInv

(***************************************************************************)
(* The worker woken for an ordered delivery finds it pushed to the FIFO    *)
(* (enqueue_ordered pushes before it adds), until Redis loses its data.    *)
(***************************************************************************)
THEOREM QueueBeforeEntryCorrect == Spec => []QueueBeforeEntry
  BY IngestAlways, PTL DEF IngestInv
=============================================================================
