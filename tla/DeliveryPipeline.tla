-------------------------- MODULE DeliveryPipeline --------------------------
(***************************************************************************)
(* The delivery pipeline of Relay on one shard: the API requests that      *)
(* commit deliveries and enqueue them (routes/events.py, routes/dlq.py),   *)
(* the Redis stream with its consumer group, the retry ZSET and the        *)
(* scheduler that drains it (retry_queue.py, retry_scheduler.py), the      *)
(* per-endpoint FIFO and lock (ordering.py) and the workers (worker.py).   *)
(*                                                                         *)
(* Every await at which another process can run is a step boundary.  The   *)
(* breaker, rate and concurrency gates are nondeterministic here: they are *)
(* modelled in CircuitBreaker and TenantGates.  Delays are abstracted to   *)
(* "due at some later moment".                                             *)
(***************************************************************************)
EXTENDS RetryPolicy, FiniteSets, SequencesExt

CONSTANTS
    Workers,        \* consumers of the shard's stream, one handler each
    Requests,       \* API requests that may be served at the same time
    Events,         \* events a client may ingest
    Deliveries,     \* delivery rows the events fan out to
    Endpoints,
    EventOf,        \* the event of a delivery
    EndpointOf,     \* the endpoint of a delivery
    OrderedEndpoints,
    Slots,          \* identities of read but unacknowledged stream entries
    Results,        \* what a POST may come back with
    MAX_ATTEMPTS,   \* settings.max_attempts
    MaxFaults,      \* bound: worker crashes and exceptions
    MaxExpiries,    \* bound: ordering locks that expire under a live holder
    MaxSteals,      \* bound: entries reclaimed from a handler still at work
    MaxLost,        \* bound: API requests that die after their commit
    MaxReplays,     \* bound: DLQ replays
    MaxPatches,     \* bound: endpoint status changes
    None, Orphan    \* no value; the token of a holder that is gone

ASSUME IdentityAssumption ==
    /\ EventOf \in [Deliveries -> Events]
    /\ EndpointOf \in [Deliveries -> Endpoints]
    /\ OrderedEndpoints \subseteq Endpoints
    /\ None \notin Workers \cup Deliveries \cup Slots \cup {Orphan}
    /\ Orphan \notin Workers
ASSUME PolicyAssumption ==
    /\ MAX_ATTEMPTS \in Nat \ {0}
    /\ Results \subseteq Nat
ASSUME BoundAssumption ==
    /\ MaxFaults \in Nat
    /\ MaxExpiries \in Nat
    /\ MaxSteals \in Nat
    /\ MaxLost \in Nat
    /\ MaxReplays \in Nat
    /\ MaxPatches \in Nat

VARIABLES
    \* Postgres
    row,          \* deliveries: status and attempt_count
    rows,         \* delivery_attempts written since the row was committed or
                  \* last replayed; older ones stay in the table, uncounted here
    epStatus,     \* endpoints.status
    \* Redis
    stream,       \* entries not yet read by the consumer group
    pel,          \* the group's pending-entries list: slot -> delivery
    zset,         \* relay:retries
    queue,        \* relay:ordered:<endpoint>
    lock,         \* relay:lock:endpoint:<endpoint>
    \* Processes
    wk,           \* the handler each worker is running
    req,          \* the API requests being served
    ingested,     \* events accepted
    \* Spent bounds
    spent,
    \* History, read only by the properties
    ahead,        \* deliveries RPUSHed before a delivery was, per endpoint
    pushed,       \* deliveries RPUSHed at least once
    posted,       \* deliveries POSTed at least once
    settledOnce,  \* deliveries that have been delivered or dead
    deactivated,  \* endpoints that have been paused or disabled
    abandoned,    \* deliveries whose API request died before its XADD
    astray        \* deliveries that settled without their pop, or were RPUSHed
                  \* while settled or still in their queue

db      == <<row, rows, epStatus>>
queues  == <<stream, pel, zset>>
fifo    == <<queue, lock>>
history == <<ahead, pushed, posted, settledOnce, deactivated, abandoned, astray>>
vars    == <<row, rows, epStatus, stream, pel, zset, queue, lock, wk, req,
             ingested, spent, ahead, pushed, posted, settledOnce, deactivated,
             abandoned, astray>>

-----------------------------------------------------------------------------
Settled == {"delivered", "dead"}
Status  == {"absent", "pending", "delivering", "failed"} \cup Settled

IsOrdered(d) == EndpointOf[d] \in OrderedEndpoints

\* A row that is not there, and the view of a session that has not read one.
NoRow == [status |-> "absent", attempts |-> 0]

\* A worker between two entries of its stream.
Idle == [pc |-> "idle", slot |-> None, cur |-> None, view |-> NoRow,
         token |-> FALSE, ack |-> TRUE, result |-> NoStatus]

NoRequest == [pc |-> "idle", kind |-> "ingest", todo |-> {}, cur |-> None]

NoneSpent == [faults |-> 0, expiries |-> 0, steals |-> 0, lost |-> 0,
              replays |-> 0, patches |-> 0]

Init ==
    /\ row = [d \in Deliveries |-> NoRow]
    /\ rows = [d \in Deliveries |-> 0]
    /\ epStatus = [e \in Endpoints |-> "active"]
    /\ stream = <<>>
    /\ pel = [s \in Slots |-> None]
    /\ zset = {}
    /\ queue = [e \in Endpoints |-> <<>>]
    /\ lock = [e \in Endpoints |-> None]
    /\ wk = [w \in Workers |-> Idle]
    /\ req = [r \in Requests |-> NoRequest]
    /\ ingested = {}
    /\ spent = NoneSpent
    /\ ahead = [d \in Deliveries |-> {}]
    /\ pushed = {}
    /\ posted = {}
    /\ settledOnce = {}
    /\ deactivated = {}
    /\ abandoned = {}
    /\ astray = {}

-----------------------------------------------------------------------------
(***************************************************************************)
(* API requests.  ingest_event commits one row per active endpoint of the  *)
(* event in one transaction; replay selects dead rows, then resets them in *)
(* one commit.  Both then walk the rows and enqueue them one by one.       *)
(***************************************************************************)

\* ingest_event up to its commit: the fan-out to active endpoints.  Nobody else
\* sees the rows before the commit, so the SELECT of the endpoints is one step
\* with it; an event whose idempotency key is known changes nothing.
Ingest(r, ev) ==
    LET fanout == {d \in Deliveries : /\ EventOf[d] = ev
                                      /\ epStatus[EndpointOf[d]] = "active"}
    IN  /\ req[r].pc = "idle"
        /\ ev \notin ingested
        /\ ingested' = ingested \cup {ev}
        /\ row' = [d \in Deliveries |->
                      IF d \in fanout
                      THEN [status |-> "pending", attempts |-> 0]
                      ELSE row[d]]
        /\ req' = [req EXCEPT ![r] = [pc |-> "next", kind |-> "ingest",
                                      todo |-> fanout, cur |-> None]]
        /\ UNCHANGED <<rows, epStatus, queues, fifo, wk, spent, history>>

ReplayKinds == {"replay", "approve"}

\* replay up to its SELECT: some or all of the endpoint's dead deliveries.
\* approve_action of a replay_dlq takes all of them.
ReplaySelect(r, e, chosen, kind) ==
    LET dead == {d \in Deliveries : EndpointOf[d] = e /\ row[d].status = "dead"}
    IN  /\ req[r].pc = "idle"
        /\ spent.replays < MaxReplays
        /\ chosen # {} /\ chosen \subseteq dead
        /\ kind = "approve" => chosen = dead
        /\ req' = [req EXCEPT ![r] = [pc |-> "commit", kind |-> kind,
                                      todo |-> chosen, cur |-> None]]
        /\ spent' = [spent EXCEPT !.replays = @ + 1]
        /\ UNCHANGED <<db, queues, fifo, wk, ingested, history>>

\* Mutant of ReplayCommit: replay does not give the attempts back.
ReplayCommitKeepsAttempts(r) ==
    /\ req[r].pc = "commit"
    /\ row' = [d \in Deliveries |->
                  IF d \in req[r].todo
                  THEN [row[d] EXCEPT !.status = "pending"] ELSE row[d]]
    /\ rows' = [d \in Deliveries |-> IF d \in req[r].todo THEN 0 ELSE rows[d]]
    /\ req' = [req EXCEPT ![r].pc = "next"]
    /\ UNCHANGED <<epStatus, queues, fifo, wk, ingested, spent, history>>

\* The commit of replay writes by primary key, whatever the rows say by now.
ReplayCommit(r) ==
    /\ req[r].pc = "commit"
    /\ row' = [d \in Deliveries |->
                  IF d \in req[r].todo
                  THEN [status |-> "pending", attempts |-> 0]
                  ELSE row[d]]
    /\ rows' = [d \in Deliveries |-> IF d \in req[r].todo THEN 0 ELSE rows[d]]
    /\ req' = [req EXCEPT ![r].pc = "next"]
    /\ UNCHANGED <<epStatus, queues, fifo, wk, ingested, spent, history>>

\* The head of the enqueue loop; SQL returns the rows in no particular order.
\* replay clears the retry set first; approve_action only ever adds the wakeup.
FirstStep(kind) ==
    CASE kind = "ingest"  -> "push"
      [] kind = "replay"  -> "clear"
      [] kind = "approve" -> "xadd"

EnqueueNext(r) ==
    /\ req[r].pc = "next"
    /\ \/ /\ req[r].todo = {}
          /\ req' = [req EXCEPT ![r] = NoRequest]
       \/ \E d \in req[r].todo :
             req' = [req EXCEPT
                        ![r].pc = FirstStep(req[r].kind),
                        ![r].cur = d,
                        ![r].todo = @ \ {d}]
    /\ UNCHANGED <<db, queues, fifo, wk, ingested, spent, history>>

\* remove_from_retry_queue: ZREM of a stale retry.
ClearRetry(r) ==
    /\ req[r].pc = "clear"
    /\ zset' = zset \ {req[r].cur}
    /\ req' = [req EXCEPT ![r].pc = "push"]
    /\ UNCHANGED <<db, stream, pel, fifo, wk, ingested, spent, history>>

\* enqueue_ordered: RPUSH, for an ordered endpoint only.
EnqueueOrdered(r) ==
    LET d == req[r].cur
        e == EndpointOf[d]
    IN  /\ req[r].pc = "push"
        /\ req' = [req EXCEPT ![r].pc = "xadd"]
        /\ \/ /\ IsOrdered(d)
              /\ queue' = [queue EXCEPT ![e] = Append(@, d)]
              /\ pushed' = pushed \cup {d}
              /\ ahead' = IF d \in pushed THEN ahead
                          ELSE [ahead EXCEPT ![d] =
                                   {c \in pushed : EndpointOf[c] = e}]
              /\ astray' = IF d \in ToSet(queue[e]) \/ row[d].status \in Settled
                           THEN astray \cup {d} ELSE astray
           \/ ~IsOrdered(d) /\ UNCHANGED <<queue, pushed, ahead, astray>>
        /\ UNCHANGED <<db, queues, lock, wk, ingested, spent, posted,
                       settledOnce, deactivated, abandoned>>

\* Mutant of EnqueueDelivery: the wakeup is forgotten.
EnqueueNothing(r) ==
    /\ req[r].pc = "xadd"
    /\ req' = [req EXCEPT ![r].pc = "next", ![r].cur = None]
    /\ UNCHANGED <<db, queues, fifo, wk, ingested, spent, history>>

\* enqueue_delivery: XADD of the wakeup.
EnqueueDelivery(r) ==
    /\ req[r].pc = "xadd"
    /\ stream' = Append(stream, req[r].cur)
    /\ req' = [req EXCEPT ![r].pc = "next", ![r].cur = None]
    /\ UNCHANGED <<db, pel, zset, fifo, wk, ingested, spent, history>>

\* A Redis error or the death of the API process ends the request where it is.
RequestDies(r) ==
    /\ req[r].pc \in {"next", "clear", "push", "xadd"}
    /\ spent.lost < MaxLost
    /\ spent' = [spent EXCEPT !.lost = @ + 1]
    /\ abandoned' = abandoned \cup req[r].todo \cup ({req[r].cur} \ {None})
    /\ req' = [req EXCEPT ![r] = NoRequest]
    /\ UNCHANGED <<db, queues, fifo, wk, ingested, ahead, pushed, posted,
                   settledOnce, deactivated, astray>>

\* patch_endpoint and the approved pause_endpoint action: any status change.
PatchEndpoint(e, s) ==
    /\ spent.patches < MaxPatches
    /\ epStatus[e] # s
    /\ epStatus' = [epStatus EXCEPT ![e] = s]
    /\ spent' = [spent EXCEPT !.patches = @ + 1]
    /\ deactivated' = IF s = "active" THEN deactivated ELSE deactivated \cup {e}
    /\ UNCHANGED <<row, rows, queues, fifo, wk, req, ingested, ahead, pushed,
                   posted, settledOnce, abandoned, astray>>

-----------------------------------------------------------------------------
(***************************************************************************)
(* The retry scheduler.  MOVE_DUE_LUA moves a batch of due members in one  *)
(* script; which members are due is open here, so the batch is a sequence  *)
(* of single moves.                                                        *)
(***************************************************************************)

\* Mutant of MoveDue: the member is re-enqueued but not removed.
MoveDueKeepsMember(d) ==
    /\ d \in zset
    /\ stream' = Append(stream, d)
    /\ UNCHANGED <<db, pel, zset, fifo, wk, req, ingested, spent, history>>

MoveDue(d) ==
    /\ d \in zset
    /\ zset' = zset \ {d}
    /\ stream' = Append(stream, d)
    /\ UNCHANGED <<db, pel, fifo, wk, req, ingested, spent, history>>

-----------------------------------------------------------------------------
(***************************************************************************)
(* Taking an entry.  A slot stands for the identity of an entry from the   *)
(* moment it is read until nobody refers to it any more.                   *)
(***************************************************************************)
Handlers(s) == {w \in Workers : wk[w].slot = s}

Become(w, handler) == wk' = [wk EXCEPT ![w] = handler]

Start(w, s, d) ==
    Become(w, [Idle EXCEPT !.pc = "load", !.slot = s, !.cur = d])

\* consume_shard: XREADGROUP of one new entry.
Read(w, s) ==
    /\ wk[w].pc = "idle"
    /\ stream # <<>>
    /\ pel[s] = None
    /\ Handlers(s) = {}
    /\ stream' = Tail(stream)
    /\ pel' = [pel EXCEPT ![s] = Head(stream)]
    /\ Start(w, s, Head(stream))
    /\ UNCHANGED <<db, zset, fifo, req, ingested, spent, history>>

\* reclaim_stale: XAUTOCLAIM of an entry idle for RECLAIM_MIN_IDLE_MS, whose
\* handler is gone, or is alive but has taken that long.
Reclaim(w, s) ==
    /\ wk[w].pc = "idle"
    /\ pel[s] # None
    /\ \/ /\ Handlers(s) = {}
          /\ UNCHANGED spent
       \/ /\ Handlers(s) # {}
          /\ spent.steals < MaxSteals
          /\ spent' = [spent EXCEPT !.steals = @ + 1]
    /\ Start(w, s, pel[s])
    /\ UNCHANGED <<db, queues, fifo, req, ingested, history>>

-----------------------------------------------------------------------------
(***************************************************************************)
(* The handler of an entry: deliver_with_gates and process_delivery.       *)
(***************************************************************************)
At(w, p) == wk[w].pc = p

Goto(w, p) == Become(w, [wk[w] EXCEPT !.pc = p])

\* Where the handler goes once nothing but its finally block is left.
Leave(w) == IF wk[w].token THEN "release" ELSE "ack"

\* deliver_with_gates, lines 222-243: the session reads row and endpoint.
Load(w) ==
    LET d == wk[w].cur
        skip == row[d].status \in Settled \/ epStatus[EndpointOf[d]] # "active"
    IN  /\ At(w, "load")
        /\ Become(w, [wk[w] EXCEPT !.pc = IF skip THEN "ack"
                                          ELSE IF IsOrdered(d) THEN "lock"
                                          ELSE "gates",
                                   !.view = row[d]])
        /\ UNCHANGED <<db, queues, fifo, req, ingested, spent, history>>

\* Mutant of AcquireLock: SET without NX.
AcquireLockAlways(w) ==
    /\ At(w, "lock")
    /\ lock' = [lock EXCEPT ![EndpointOf[wk[w].cur]] = w]
    /\ Become(w, [wk[w] EXCEPT !.pc = "peek", !.token = TRUE])
    /\ UNCHANGED <<db, queues, queue, req, ingested, spent, history>>

\* acquire_lock: SET NX PX.
AcquireLock(w) ==
    LET e == EndpointOf[wk[w].cur]
    IN  /\ At(w, "lock")
        /\ \/ /\ lock[e] = None
              /\ lock' = [lock EXCEPT ![e] = w]
              /\ Become(w, [wk[w] EXCEPT !.pc = "peek", !.token = TRUE])
           \/ /\ lock[e] # None
              /\ Goto(w, "defer")
              /\ UNCHANGED lock
        /\ UNCHANGED <<db, queues, queue, req, ingested, spent, history>>

\* Mutant of PeekHead: whoever holds the lock goes ahead.
PeekNothing(w) ==
    /\ At(w, "peek")
    /\ Goto(w, "gates")
    /\ UNCHANGED <<db, queues, fifo, req, ingested, spent, history>>

\* peek_head: only the head, or anyone when the queue is empty, goes on.
PeekHead(w) ==
    LET q == queue[EndpointOf[wk[w].cur]]
    IN  /\ At(w, "peek")
        /\ Goto(w, IF q # <<>> /\ Head(q) # wk[w].cur THEN "yield" ELSE "gates")
        /\ UNCHANGED <<db, queues, fifo, req, ingested, spent, history>>

\* RELEASE_LOCK_LUA: delete the lock only if it still holds our token.
FreeLock(w) ==
    LET e == EndpointOf[wk[w].cur]
    IN  lock' = IF lock[e] = w THEN [lock EXCEPT ![e] = None] ELSE lock

\* Mutant of YieldLock: a lock that was of no use is kept until its TTL.
YieldKeepsLock(w) ==
    /\ At(w, "yield")
    /\ Become(w, [wk[w] EXCEPT !.pc = "defer", !.token = FALSE])
    /\ UNCHANGED <<db, queues, fifo, req, ingested, spent, history>>

\* Not the head: the lock is given back before the delivery is deferred.
YieldLock(w) ==
    /\ At(w, "yield")
    /\ FreeLock(w)
    /\ Become(w, [wk[w] EXCEPT !.pc = "defer", !.token = FALSE])
    /\ UNCHANGED <<db, queues, queue, req, ingested, spent, history>>

\* defer_delivery: ZADD, without an attempt.
Defer(w) ==
    /\ At(w, "defer")
    /\ zset' = zset \cup {wk[w].cur}
    /\ Goto(w, Leave(w))
    /\ UNCHANGED <<db, stream, pel, fifo, req, ingested, spent, history>>

\* check_gates and acquire_slot let the delivery through.
PassGates(w) ==
    /\ At(w, "gates")
    /\ Goto(w, "begin")
    /\ UNCHANGED <<db, queues, fifo, req, ingested, spent, history>>

\* The breaker, the rate limit or the concurrency cap says no.
FailGates(w) ==
    /\ At(w, "gates")
    /\ Goto(w, "defer")
    /\ UNCHANGED <<db, queues, fifo, req, ingested, spent, history>>

\* The breaker has been open for 72 hours: the endpoint is disabled.
AutoDisable(w) ==
    LET e == EndpointOf[wk[w].cur]
    IN  /\ At(w, "gates")
        /\ spent.patches < MaxPatches
        /\ epStatus' = [epStatus EXCEPT ![e] = "disabled"]
        /\ deactivated' = deactivated \cup {e}
        /\ spent' = [spent EXCEPT !.patches = @ + 1]
        /\ Goto(w, "defer")
        /\ UNCHANGED <<row, rows, queues, fifo, req, ingested, ahead, pushed,
                       posted, settledOnce, abandoned, astray>>

(***************************************************************************)
(* process_delivery up to its first commit.  Its own SELECT returns the    *)
(* object the session already holds (expire_on_commit is off), so the      *)
(* attempt number comes from the view read by Load, and the status is only *)
(* written if that view did not say 'delivering' already.                  *)
(***************************************************************************)
Begin(w) ==
    LET d == wk[w].cur
        v == [status |-> "delivering", attempts |-> wk[w].view.attempts + 1]
    IN  /\ At(w, "begin")
        /\ row' = [row EXCEPT ![d] =
                      IF wk[w].view.status = "delivering"
                      THEN [status |-> row[d].status, attempts |-> v.attempts]
                      ELSE v]
        /\ Become(w, [wk[w] EXCEPT !.pc = "send", !.view = v])
        /\ UNCHANGED <<rows, epStatus, queues, fifo, req, ingested, spent,
                       history>>

\* send_delivery: the POST and its answer.
Send(w, result) ==
    /\ At(w, "send")
    /\ posted' = posted \cup {wk[w].cur}
    /\ Become(w, [wk[w] EXCEPT !.pc = "record", !.result = result])
    /\ UNCHANGED <<db, queues, fifo, req, ingested, spent, ahead, pushed,
                   settledOnce, deactivated, abandoned, astray>>

\* What process_delivery makes of the answer.
Outcome(w) ==
    LET delay == next_delay_seconds(wk[w].view.attempts, wk[w].result,
                                    Header("absent", 0), MAX_ATTEMPTS)
    IN  IF Succeeded(wk[w].result) THEN "delivered"
        ELSE IF delay = GiveUp THEN "dead" ELSE "failed"

\* The second commit of process_delivery: attempt row and outcome.
Record(w) ==
    LET d == wk[w].cur
        outcome == Outcome(w)
    IN  /\ At(w, "record")
        /\ row' = [row EXCEPT ![d].status = outcome]
        /\ rows' = [rows EXCEPT ![d] = @ + 1]
        /\ settledOnce' = IF outcome \in Settled THEN settledOnce \cup {d}
                                                 ELSE settledOnce
        /\ Become(w, [wk[w] EXCEPT
                        !.pc = IF outcome = "failed" THEN "schedule"
                                                     ELSE "refresh",
                        !.view = [@ EXCEPT !.status = outcome]])
        /\ UNCHANGED <<epStatus, queues, fifo, req, ingested, spent, ahead,
                       pushed, posted, deactivated, abandoned, astray>>

\* Mutant of Schedule: the retry is left to somebody else.
ScheduleNothing(w) ==
    /\ At(w, "schedule")
    /\ Goto(w, "refresh")
    /\ UNCHANGED <<db, queues, fifo, req, ingested, spent, history>>

\* schedule_retry, after the commit.
Schedule(w) ==
    /\ At(w, "schedule")
    /\ zset' = zset \cup {wk[w].cur}
    /\ Goto(w, "refresh")
    /\ UNCHANGED <<db, stream, pel, fifo, req, ingested, spent, history>>

\* Mutant of Refresh: a dead delivery keeps the head of its queue.
RefreshPopsDelivered(w) ==
    LET d == wk[w].cur
    IN  /\ At(w, "refresh")
        /\ Become(w, [wk[w] EXCEPT
                        !.pc = IF IsOrdered(d) /\ row[d].status = "delivered"
                               THEN "pop" ELSE Leave(w),
                        !.view = row[d]])
        /\ UNCHANGED <<db, queues, fifo, req, ingested, spent, history>>

\* session.refresh and record_outcome: the row is read again.
Refresh(w) ==
    LET d == wk[w].cur
    IN  /\ At(w, "refresh")
        /\ Become(w, [wk[w] EXCEPT
                        !.pc = IF IsOrdered(d) /\ row[d].status \in Settled
                               THEN "pop" ELSE Leave(w),
                        !.view = row[d]])
        /\ UNCHANGED <<db, queues, fifo, req, ingested, spent, history>>

\* LREM key 1 d: the list without the first occurrence of d, if there is one.
Positions(q, d) == {i \in 1..Len(q) : q[i] = d}
LREM(q, d) == IF Positions(q, d) = {} THEN q
                                      ELSE RemoveAt(q, Min(Positions(q, d)))

\* pop_head.
PopHead(w) ==
    LET d == wk[w].cur
    IN  /\ At(w, "pop")
        /\ queue' = [queue EXCEPT ![EndpointOf[d]] = LREM(@, d)]
        /\ Goto(w, Leave(w))
        /\ UNCHANGED <<db, queues, lock, req, ingested, spent, history>>

\* The finally block: release_lock, then the ACK or the escaped exception.
ReleaseLock(w) ==
    /\ At(w, "release")
    /\ FreeLock(w)
    /\ Become(w, IF wk[w].ack THEN [wk[w] EXCEPT !.pc = "ack", !.token = FALSE]
                              ELSE Idle)
    /\ UNCHANGED <<db, queues, queue, req, ingested, spent, history>>

\* Mutant of Ack: the handler is not cleared.
AckKeepsHandler(w) ==
    /\ At(w, "ack")
    /\ pel' = [pel EXCEPT ![wk[w].slot] = None]
    /\ Goto(w, "idle")
    /\ UNCHANGED <<db, stream, zset, fifo, req, ingested, spent, history>>

\* handle_message: XACK.
Ack(w) ==
    /\ At(w, "ack")
    /\ pel' = [pel EXCEPT ![wk[w].slot] = None]
    /\ Become(w, Idle)
    /\ UNCHANGED <<db, stream, zset, fifo, req, ingested, spent, history>>

-----------------------------------------------------------------------------
(***************************************************************************)
(* Faults.                                                                 *)
(***************************************************************************)
OrphanLocks(w) ==
    lock' = [e \in Endpoints |-> IF lock[e] = w THEN Orphan ELSE lock[e]]

(***************************************************************************)
(* A Redis or database call raises.  Between check_gates and pop_head the  *)
(* finally block still releases the lock; anywhere else, a lock that was   *)
(* taken is left to its TTL.  handle_message logs the exception and leaves *)
(* the entry unacknowledged.  send_delivery never raises.                  *)
(***************************************************************************)
InTry == {"gates", "begin", "record", "schedule", "refresh", "pop"}

\* A handler that fails between the outcome's commit and pop_head: its entry
\* will be reclaimed, but deliver_with_gates returns early for a settled row.
Strays(w) == astray' = IF wk[w].pc \in {"refresh", "pop"} THEN astray \cup {wk[w].cur}
                                                        ELSE astray

Raises(w) ==
    /\ wk[w].pc \notin {"idle", "send"}
    /\ spent.faults < MaxFaults
    /\ spent' = [spent EXCEPT !.faults = @ + 1]
    /\ IF wk[w].token /\ wk[w].pc \in InTry \cup {"defer"}
       THEN /\ Become(w, [wk[w] EXCEPT !.pc = "release", !.ack = FALSE])
            /\ UNCHANGED lock
       ELSE /\ Become(w, Idle)
            /\ OrphanLocks(w)
    /\ Strays(w)
    /\ UNCHANGED <<db, queues, queue, req, ingested, ahead, pushed, posted,
                   settledOnce, deactivated, abandoned>>

\* The worker process dies and is restarted: what it held is nobody's now.
Crash(w) ==
    /\ wk[w].pc # "idle"
    /\ spent.faults < MaxFaults
    /\ spent' = [spent EXCEPT !.faults = @ + 1]
    /\ Become(w, Idle)
    /\ OrphanLocks(w)
    /\ Strays(w)
    /\ UNCHANGED <<db, queues, queue, req, ingested, ahead, pushed, posted,
                   settledOnce, deactivated, abandoned>>

\* The lock's PX ttl runs out: for a holder that is gone, or for one whose
\* delivery takes longer than that.
ExpireLock(e) ==
    /\ lock[e] # None
    /\ \/ /\ lock[e] = Orphan
          /\ UNCHANGED spent
       \/ /\ lock[e] # Orphan
          /\ spent.expiries < MaxExpiries
          /\ spent' = [spent EXCEPT !.expiries = @ + 1]
    /\ lock' = [lock EXCEPT ![e] = None]
    /\ UNCHANGED <<db, queues, queue, wk, req, ingested, history>>

-----------------------------------------------------------------------------
Handle(w) ==
    \/ Load(w)
    \/ AcquireLock(w)
    \/ PeekHead(w)
    \/ YieldLock(w)
    \/ Defer(w)
    \/ PassGates(w)
    \/ FailGates(w)
    \/ AutoDisable(w)
    \/ Begin(w)
    \/ \E result \in Results : Send(w, result)
    \/ Record(w)
    \/ Schedule(w)
    \/ Refresh(w)
    \/ PopHead(w)
    \/ ReleaseLock(w)
    \/ Ack(w)

Serve(r) ==
    \/ ReplayCommit(r)
    \/ EnqueueNext(r)
    \/ ClearRetry(r)
    \/ EnqueueOrdered(r)
    \/ EnqueueDelivery(r)

Next ==
    \/ \E r \in Requests, ev \in Events : Ingest(r, ev)
    \/ \E r \in Requests, e \in Endpoints, chosen \in SUBSET Deliveries,
          kind \in ReplayKinds : ReplaySelect(r, e, chosen, kind)
    \/ \E r \in Requests : Serve(r)
    \/ \E r \in Requests : RequestDies(r)
    \/ \E e \in Endpoints, s \in {"active", "paused", "disabled"} :
           PatchEndpoint(e, s)
    \/ \E d \in Deliveries : MoveDue(d)
    \/ \E w \in Workers, s \in Slots : Read(w, s)
    \/ \E w \in Workers, s \in Slots : Reclaim(w, s)
    \/ \E w \in Workers : Handle(w)
    \/ \E w \in Workers : Raises(w)
    \/ \E w \in Workers : Crash(w)
    \/ \E e \in Endpoints : ExpireLock(e)

Spec == Init /\ [][Next]_vars

(***************************************************************************)
(* Fairness.  The worker loop, the scheduler loop and an API request that  *)
(* is being served always get to run again; the reclaim pass comes before  *)
(* the next read once RECLAIM_INTERVAL_S have passed, so a stream that is  *)
(* never empty cannot starve it; a lock has a TTL.  Nothing is assumed of  *)
(* the gates, nor of who wins an ordering lock.                            *)
(***************************************************************************)
Fairness ==
    /\ \A w \in Workers : /\ WF_vars(Handle(w))
                          /\ WF_vars(\E s \in Slots : Read(w, s))
                          /\ SF_vars(\E s \in Slots : Reclaim(w, s))
    /\ \A r \in Requests : WF_vars(Serve(r))
    /\ \A d \in Deliveries : WF_vars(MoveDue(d))
    /\ \A e \in Endpoints : WF_vars(lock[e] = Orphan /\ ExpireLock(e))

FairSpec == Spec /\ Fairness

-----------------------------------------------------------------------------
Busy == {"load", "lock", "peek", "yield", "defer", "gates", "begin", "send",
         "record", "schedule", "refresh", "pop", "release", "ack"}

Row == [status : Status, attempts : Nat]

WorkerRecord ==
    [pc : Busy \cup {"idle"},
     slot : Slots \cup {None}, cur : Deliveries \cup {None},
     view : Row,
     token : BOOLEAN, ack : BOOLEAN, result : Results \cup {NoStatus}]

WorkerState ==
    {v \in WorkerRecord :
        IF v.pc = "idle" THEN v = Idle ELSE v.slot \in Slots /\ v.cur \in Deliveries}

RequestRecord ==
    [pc : {"idle", "commit", "next", "clear", "push", "xadd"},
     kind : {"ingest"} \cup ReplayKinds, todo : SUBSET Deliveries,
     cur : Deliveries \cup {None}]

RequestState ==
    {v \in RequestRecord :
        v.pc \in {"clear", "push", "xadd"} <=> v.cur \in Deliveries}

TypeDb ==
    /\ row \in [Deliveries -> Row]
    /\ rows \in [Deliveries -> Nat]
    /\ epStatus \in [Endpoints -> {"active", "paused", "disabled"}]

TypeQueues ==
    /\ stream \in Seq(Deliveries)
    /\ pel \in [Slots -> Deliveries \cup {None}]
    /\ zset \in SUBSET Deliveries

TypeFifo ==
    /\ queue \in [Endpoints -> Seq(Deliveries)]
    /\ lock \in [Endpoints -> Workers \cup {None, Orphan}]

TypeHistory ==
    /\ ingested \in SUBSET Events
    /\ spent \in [faults : Nat, expiries : Nat, steals : Nat, lost : Nat,
                  replays : Nat, patches : Nat]
    /\ ahead \in [Deliveries -> SUBSET Deliveries]
    /\ pushed \in SUBSET Deliveries
    /\ posted \in SUBSET Deliveries
    /\ settledOnce \in SUBSET Deliveries
    /\ deactivated \in SUBSET Endpoints
    /\ abandoned \in SUBSET Deliveries
    /\ astray \in SUBSET Deliveries

(***************************************************************************)
(* TypeOK: every variable keeps its type; a worker between two entries     *)
(* carries nothing over from the last one, and one that handles an entry   *)
(* knows which; likewise an API request inside its enqueue loop.           *)
(***************************************************************************)
TypeOK ==
    /\ TypeDb
    /\ TypeQueues
    /\ TypeFifo
    /\ TypeHistory
    /\ wk \in [Workers -> WorkerState]
    /\ req \in [Requests -> RequestState]

-----------------------------------------------------------------------------
\* Somebody will still act for the delivery.
InRequest(d) == \E r \in Requests : d \in req[r].todo \/ req[r].cur = d
Located(d) ==
    \/ d \in ToSet(stream)
    \/ \E s \in Slots : pel[s] = d
    \/ d \in zset
    \/ InRequest(d)

(***************************************************************************)
(* NoLostDelivery: at-least-once (README, "Delivery semantics").  A        *)
(* committed delivery that is neither delivered nor dead is always in the  *)
(* stream, the pending list, the retry set or the hands of an API request, *)
(* through worker crashes, exceptions, expiring locks, replays and gate    *)
(* rejections.  Deliveries whose API request died before its XADD, and     *)
(* those of an endpoint that has been paused or disabled, are the two      *)
(* exceptions the code makes; a third is work stolen from a handler that   *)
(* is alive, which RECLAIM_MIN_IDLE_MS is there to prevent.                *)
(***************************************************************************)
NoLostDelivery ==
    spent.steals = 0 =>
        \A d \in Deliveries :
            (/\ row[d].status \notin Settled \cup {"absent"}
             /\ d \notin abandoned
             /\ EndpointOf[d] \notin deactivated) => Located(d)

(***************************************************************************)
(* OrderedFIFO: on an ordered endpoint no delivery is POSTed before every  *)
(* delivery enqueued ahead of it has been delivered or dead-lettered       *)
(* (README, "in enqueue order"), whatever expires, crashes or is replayed. *)
(***************************************************************************)
OrderedFIFO == \A d \in posted : ahead[d] \subseteq settledOnce

(***************************************************************************)
(* OneInFlight: an ordered endpoint never has two POSTs outstanding        *)
(* (README, "Strictly one at a time"): the lock of ordering.py excludes,   *)
(* also across crashes, orphaned locks and reclaimed entries, until a      *)
(* holder outlives the lock's TTL.                                         *)
(***************************************************************************)
OneInFlight ==
    spent.expiries = 0 =>
        \A v, w \in Workers :
            (/\ At(v, "send") /\ At(w, "send")
             /\ IsOrdered(wk[v].cur)
             /\ EndpointOf[wk[v].cur] = EndpointOf[wk[w].cur]) => v = w

(***************************************************************************)
(* HeadNotStranded: the head of an ordered queue is either a delivery that *)
(* still has to settle or one whose handler is about to pop it: a settled  *)
(* delivery never stays at the head (ordering.py, a delivery "blocks       *)
(* everything behind it until it succeeds or dies", and no longer).        *)
(***************************************************************************)
BeingPopped(d) ==
    \E w \in Workers : wk[w].cur = d /\ wk[w].pc \in {"refresh", "pop"}

SettledHead(e) == queue[e] # <<>> /\ row[Head(queue[e])].status \in Settled

HeadNotStranded ==
    \A e \in OrderedEndpoints : SettledHead(e) => BeingPopped(Head(queue[e]))

(***************************************************************************)
(* HeadAnsweredFor: a settled head that nobody is about to pop has been    *)
(* left behind in one of two ways, and in no other: a handler failed       *)
(* between the commit of its outcome and pop_head, or the delivery was     *)
(* RPUSHed when it had settled already or was still in the queue (replay). *)
(* Expiring locks, stolen entries, two handlers of one delivery, retries   *)
(* and gates strand nothing.                                               *)
(***************************************************************************)
HeadAnsweredFor ==
    \A e \in OrderedEndpoints :
        SettledHead(e) => BeingPopped(Head(queue[e])) \/ Head(queue[e]) \in astray

\* What of a row its owner sees: a retry is a wait like the first one.
Seen(status) ==
    CASE status \in {"pending", "failed"} -> "waiting"
      [] status = "delivering"           -> "sending"
      [] OTHER                           -> status

Lifecycle == INSTANCE DeliveryLifecycle
    WITH life <- [d \in Deliveries |-> [state |-> Seen(row[d].status),
                                        tries |-> row[d].attempts]]

(***************************************************************************)
(* FollowsLifecycle: the rows go through the life of DeliveryLifecycle     *)
(* whatever workers, scheduler, replays and dying requests do to the       *)
(* queues: 'delivered' is final, no attempt begins while another one of    *)
(* the same delivery is out or beyond the budget, only the dead are        *)
(* replayed (worker.py: "nothing else writes to this row meanwhile").      *)
(***************************************************************************)
FollowsLifecycle == Lifecycle!Spec

(***************************************************************************)
(* AuditComplete: a settled delivery has one delivery_attempts row for     *)
(* each attempt it counted since it was accepted or last replayed (replay  *)
(* sets attempt_count to 0 and keeps the old rows): the audit trail has no *)
(* gaps while no handler dies between its two commits.                     *)
(***************************************************************************)
AuditComplete ==
    \A d \in Deliveries : row[d].status \in Settled => rows[d] = row[d].attempts

\* A settled delivery heads the queue and nobody will pop it.
Wedged(e) ==
    /\ e \in OrderedEndpoints /\ SettledHead(e)
    /\ Head(queue[e]) \in astray
    /\ \A w \in Workers : wk[w].cur # Head(queue[e])

\* A handler for the endpoint is stopped by a gate, or by the lock of another
\* handler at work for it.
HeldFor(e) == \E v \in Workers : /\ lock[e] = v
                                 /\ wk[v].token /\ EndpointOf[wk[v].cur] = e
TurnedAway(e) ==
    \E w \in Workers : /\ At(w, "gates") \/ (At(w, "lock") /\ HeldFor(e))
                       /\ EndpointOf[wk[w].cur] = e
                       /\ wk'[w].pc = "defer"

(***************************************************************************)
(* EventuallySettled: every accepted delivery is in the end delivered or   *)
(* dead, although workers crash in the middle of it, unless the handlers   *)
(* of its endpoint are turned away for ever, by the gates or by each       *)
(* other's lock (worker.py, defer_delivery: a deferral is not an attempt,  *)
(* and nothing bounds how many there are).  The exception is an ordered    *)
(* delivery behind a head that settled but was not popped                  *)
(* (HeadNotStranded).                                                      *)
(***************************************************************************)
EventuallySettled ==
    \A d \in Deliveries :
        \/ []<><<TurnedAway(EndpointOf[d])>>_vars
        \/ (row[d].status = "pending")
               ~> (row[d].status \in Settled \/ Wedged(EndpointOf[d]))
=============================================================================
