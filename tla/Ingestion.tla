------------------------------ MODULE Ingestion ------------------------------
(***************************************************************************)
(* What happens to an event between POST /v1/events and its handlers       *)
(* (api/routes/events.py, ingest_event), while a tenant creates, changes   *)
(* and deletes endpoints (api/routes/endpoints.py) and the workers of      *)
(* ShardConsumers read the stream.  An event is named after the request    *)
(* that created it, a delivery after its event and its endpoint.           *)
(***************************************************************************)
EXTENDS ShardConsumers, FiniteSets

CONSTANTS
    Requests,
    Key,            \* the idempotency key of each request, or None
    Endpoints,      \* those subscribed to the events' type
    Ordered,        \* endpoints with ordering = 'ordered'
    MaxAdmin,       \* bound: endpoint operations
    None

ASSUME IngestAssumption ==
    /\ Ordered \subseteq Endpoints
    /\ MaxAdmin \in Nat
    /\ None \notin Requests \cup Endpoints

VARIABLES
    endpoint,   \* endpoints.status ("paused" is disabled too), or "none" before
                \* it is created and "deleted" after
    events,     \* committed rows of events
    rows,       \* committed rows of deliveries
    req,        \* the requests
    queue,      \* deliveries pushed to the FIFO of an ordered endpoint; what takes
                \* them off is DeliveryPipeline's
    admin,      \* endpoint operations so far
    abandoned   \* history: deliveries whose request ended before their XADD

intake == <<up, group, stream, pel, task, spent, handled, wiped,
            endpoint, events, rows, req, queue, admin, abandoned>>

Arriving == [pc |-> "new", todo |-> {}, cur |-> None, answer |-> None]

Init ==
    /\ ShardInit
    /\ endpoint \in [Endpoints -> {"none", "active"}]
    /\ events = {}
    /\ rows = {}
    /\ req = [r \in Requests |-> Arriving]
    /\ queue = {}
    /\ admin = 0
    /\ abandoned = {}

InReq(r, p) == req[r].pc = p
SameKey(r, s) == Key[r] # None /\ Key[r] = Key[s]

\* _existing_by_idempotency_key.
Existing(r) == {s \in events : SameKey(r, s)}

\* A 202 with the id of event s, or a 500.
Accept(r, s) == req' = [req EXCEPT ![r] = [Arriving EXCEPT !.pc = "done", !.answer = s]]
Refuse(r) == req' = [req EXCEPT ![r] = [Arriving EXCEPT !.pc = "error"]]

\* ingest_event: the lookup before anything is written.
Lookup(r) ==
    /\ InReq(r, "new")
    /\ \/ /\ Existing(r) = {}
          /\ req' = [req EXCEPT ![r].pc = "select"]
       \/ \E s \in Existing(r) : Accept(r, s)
    /\ UNCHANGED <<endpoint, events, rows, queue, admin, abandoned>>
    /\ UNCHANGED shard

\* Mutant of Taken: the unique constraint is missing.
TakenNever(r) == FALSE

\* uq_events_tenant_idempotency: the key has a committed row.
Taken(r) == Existing(r) # {}

\* Another transaction has inserted the key and has not ended yet.
Contended(r) == \E s \in Requests \ {r} : SameKey(r, s) /\ InReq(s, "commit")

\* ingest_event: the SELECT of the active endpoints.  The session flushes the
\* new event before it runs a query, so the key is inserted here: the INSERT
\* waits for a transaction that holds the key, and its IntegrityError is
\* raised outside the try block and answers 500.
Select(r) ==
    /\ InReq(r, "select")
    /\ ~Contended(r)
    /\ \/ /\ Taken(r)
          /\ Refuse(r)
       \/ /\ ~Taken(r)
          /\ req' = [req EXCEPT ![r].pc = "commit",
                                ![r].todo = {e \in Endpoints : endpoint[e] = "active"}]
    /\ UNCHANGED <<endpoint, events, rows, queue, admin, abandoned>>
    /\ UNCHANGED shard

\* Mutant of Commit: the deliveries are enqueued but never written.
CommitEventOnly(r) ==
    /\ InReq(r, "commit")
    /\ events' = events \cup {r}
    /\ req' = [req EXCEPT ![r].pc = "enqueue"]
    /\ UNCHANGED <<endpoint, rows, queue, admin, abandoned>>
    /\ UNCHANGED shard

\* ingest_event: the commit of the event and its deliveries.  It fails when an
\* endpoint selected before is gone (the foreign key of deliveries).
Commit(r) ==
    /\ InReq(r, "commit")
    /\ \/ /\ \E e \in req[r].todo : endpoint[e] = "deleted"
          /\ req' = [req EXCEPT ![r] = [Arriving EXCEPT !.pc = "conflict"]]
          /\ UNCHANGED <<events, rows>>
       \/ /\ \A e \in req[r].todo : endpoint[e] # "deleted"
          /\ events' = events \cup {r}
          /\ rows' = rows \cup ({r} \X req[r].todo)
          /\ req' = [req EXCEPT ![r].pc = "enqueue"]
    /\ UNCHANGED <<endpoint, queue, admin, abandoned>>
    /\ UNCHANGED shard

\* ingest_event: the except branch takes the error for a lost race; without a
\* key its assertion fails, without an event of that key it answers 500.
Resolve(r) ==
    /\ InReq(r, "conflict")
    /\ \/ Existing(r) = {} /\ Refuse(r)
       \/ \E s \in Existing(r) : Accept(r, s)
    /\ UNCHANGED <<endpoint, events, rows, queue, admin, abandoned>>
    /\ UNCHANGED shard

\* Mutant of NextDelivery: the FIFO is forgotten.
NextDeliveryUnordered(r, e) ==
    /\ InReq(r, "enqueue") /\ req[r].cur = None
    /\ e \in req[r].todo
    /\ req' = [req EXCEPT ![r].cur = e, ![r].todo = @ \ {e}, ![r].pc = "xadd"]
    /\ UNCHANGED <<endpoint, events, rows, queue, admin, abandoned>>
    /\ UNCHANGED shard

\* The enqueue loop moves on to the next delivery.
NextDelivery(r, e) ==
    /\ InReq(r, "enqueue") /\ req[r].cur = None
    /\ e \in req[r].todo
    /\ req' = [req EXCEPT ![r].cur = e, ![r].todo = @ \ {e},
                          ![r].pc = IF e \in Ordered THEN "push" ELSE "xadd"]
    /\ UNCHANGED <<endpoint, events, rows, queue, admin, abandoned>>
    /\ UNCHANGED shard

Unsent(r) == {r} \X {e \in Endpoints : e \in req[r].todo \/ e = req[r].cur}

\* A Redis error in the enqueue loop, or the end of the API process, ends the
\* request; what it has not enqueued stays behind in the database.
Abandon(r) ==
    /\ Refuse(r)
    /\ abandoned' = abandoned \cup (Unsent(r) \cap rows)

\* enqueue_ordered: RPUSH before XADD.
Push(r) ==
    /\ InReq(r, "push")
    /\ \/ /\ up
          /\ queue' = queue \cup {<<r, req[r].cur>>}
          /\ req' = [req EXCEPT ![r].pc = "xadd"]
          /\ UNCHANGED abandoned
       \/ ~up /\ Abandon(r) /\ UNCHANGED queue
    /\ UNCHANGED <<endpoint, events, rows, admin>>
    /\ UNCHANGED shard

\* enqueue_delivery: XADD to the stream of the endpoint's shard.
Xadd(r) ==
    /\ InReq(r, "xadd")
    /\ \/ /\ up
          /\ stream' = Append(stream, <<r, req[r].cur>>)
          /\ req' = [req EXCEPT ![r].pc = "enqueue", ![r].cur = None]
          /\ UNCHANGED abandoned
       \/ ~up /\ Abandon(r) /\ UNCHANGED stream
    /\ UNCHANGED <<endpoint, events, rows, queue, admin>>
    /\ UNCHANGED <<up, group, pel, task, spent, handled, wiped>>

Answer(r) ==
    /\ InReq(r, "enqueue") /\ req[r].cur = None /\ req[r].todo = {}
    /\ Accept(r, r)
    /\ UNCHANGED <<endpoint, events, rows, queue, admin, abandoned>>
    /\ UNCHANGED shard

ApiDies(r) ==
    /\ req[r].pc \notin {"done", "error"}
    /\ Fail
    /\ Abandon(r)
    /\ UNCHANGED <<endpoint, events, rows, queue, admin>>
    /\ UNCHANGED <<up, group, stream, pel, task, handled, wiped>>

-----------------------------------------------------------------------------
Administer(e, s) ==
    /\ admin < MaxAdmin
    /\ admin' = admin + 1
    /\ endpoint' = [endpoint EXCEPT ![e] = s]
    /\ UNCHANGED <<events, req, queue, abandoned>>
    /\ UNCHANGED shard

Exists(e) == endpoint[e] \in {"active", "paused"}

\* create_endpoint; patch_endpoint of the status; delete_endpoint, whose
\* deliveries cascade.  Each is one transaction.
CreateEndpoint(e) == endpoint[e] = "none" /\ Administer(e, "active") /\ UNCHANGED rows
PatchEndpoint(e) ==
    /\ Exists(e)
    /\ \E s \in {"active", "paused"} : Administer(e, s)
    /\ UNCHANGED rows
DeleteEndpoint(e) ==
    /\ Exists(e)
    /\ Administer(e, "deleted")
    /\ rows' = {d \in rows : d[2] # e}

\* Redis and the workers; the FIFOs are lost with the rest of Redis' data.
RedisStep ==
    \/ Outage /\ UNCHANGED queue
    \/ Recover /\ UNCHANGED queue
    \/ RecoverEmpty /\ queue' = {}

api == <<endpoint, events, rows, req, admin, abandoned>>

RequestStep(r) ==
    \/ Lookup(r) \/ Select(r) \/ Commit(r) \/ Resolve(r)
    \/ \E e \in Endpoints : NextDelivery(r, e)
    \/ Push(r) \/ Xadd(r) \/ Answer(r)

Next ==
    \/ \E r \in Requests : RequestStep(r) \/ ApiDies(r)
    \/ \E e \in Endpoints : CreateEndpoint(e) \/ PatchEndpoint(e) \/ DeleteEndpoint(e)
    \/ \E w \in Workers : WorkerStep(w) /\ UNCHANGED <<api, queue>>
    \/ RedisStep /\ UNCHANGED api

Spec == Init /\ [][Next]_intake

\* Nothing is assumed of the tenant; requests go on while their process lives.
FairSpec == Spec /\ ShardFairness /\ WF_intake(\E r \in Requests : RequestStep(r))

-----------------------------------------------------------------------------
Entries == ToSet(stream) \cup pel \cup InHand

(***************************************************************************)
(* TypeOK: types; a request has a delivery in hand exactly while it        *)
(* enqueues it, and answers with an event exactly when it succeeds; a task *)
(* has entries in hand only while it handles them.                         *)
(***************************************************************************)
TypeOK ==
    /\ up \in BOOLEAN /\ group \in BOOLEAN
    /\ Entries \subseteq Requests \X Endpoints
    /\ \A w \in Workers :
          /\ task[w].pc \in {"down", "loop", "reclaim", "handle", "backoff", "ended"}
          /\ Handling(w) => task[w].pc \in {"reclaim", "handle"}
          /\ At(w, "handle") => Len(task[w].todo) = 1
          /\ {task[w].due, task[w].stop} \subseteq BOOLEAN
    /\ endpoint \in [Endpoints -> {"none", "active", "paused", "deleted"}]
    /\ events \subseteq Requests
    /\ rows \subseteq events \X Endpoints
    /\ \A r \in Requests :
          /\ req[r].todo \subseteq Endpoints
          /\ req[r].pc \in {"push", "xadd"} <=> req[r].cur \in Endpoints
          /\ InReq(r, "done") <=> req[r].answer \in Requests

(***************************************************************************)
(* AnswersAgree: requests with one idempotency key that are accepted are   *)
(* all told the same event, and it is in the database (events.py, of a     *)
(* lost race: "Return its event_id"): whatever the interleaving there is   *)
(* one event per key.                                                      *)
(***************************************************************************)
AnswersAgree ==
    /\ \A r, s \in events : SameKey(r, s) => r = s
    /\ \A r \in Requests : InReq(r, "done") =>
          /\ req[r].answer \in events
          /\ req[r].answer = r \/ SameKey(r, req[r].answer)

(***************************************************************************)
(* RowBeforeEntry: "a worker can never see a delivery_id that isn't in     *)
(* Postgres yet" (events.py): an entry in Redis or in a handler's hands    *)
(* has its row, unless the endpoint was deleted since.                     *)
(***************************************************************************)
RowBeforeEntry == \A d \in Entries : d \in rows \/ endpoint[d[2]] = "deleted"

(***************************************************************************)
(* QueueBeforeEntry: the worker woken by the stream entry of an ordered    *)
(* delivery "must be able to see this delivery in the FIFO queue"          *)
(* (events.py), as long as Redis keeps its data.                           *)
(***************************************************************************)
QueueBeforeEntry ==
    spent.wipes = 0 => \A d \in Entries : d[2] \in Ordered => d \in queue

(***************************************************************************)
(* EventuallyHandled: every delivery written to the database is in the end *)
(* handled and acknowledged, through outages, wipes before it was          *)
(* enqueued, dead tasks, signals and dead processes; the exceptions are an *)
(* endpoint deleted since, an entry lost with Redis' data, and a request   *)
(* that ended before its XADD.                                             *)
(***************************************************************************)
EventuallyHandled ==
    \A d \in Requests \X Endpoints :
        (d \in rows) ~> \/ d \in handled \cup wiped \cup abandoned
                        \/ endpoint[d[2]] = "deleted"
=============================================================================
