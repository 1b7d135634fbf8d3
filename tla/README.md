# Verification of Relay

Relay accepts events over HTTP and delivers them as webhooks, at least once,
with retries, a circuit breaker per endpoint, rate and concurrency limits per
tenant, optional per-endpoint ordering, a dead-letter queue, and an agent that
diagnoses failing endpoints. This directory holds TLA+ models of its core, the
TLC configurations that check them on small instances, and TLAPS proofs of the
properties that matter most.

`PROJECT.json` lists every component, run, property, mutant and theorem, and
maps each definition to the source lines it stands for.

## 1. The system

| Component | State it keeps | Operations | Interacts with |
|---|---|---|---|
| Ingestion (`api/routes/events.py`) | rows of `events`, `deliveries` | lookup of the idempotency key, fan-out, commit, then RPUSH and XADD per delivery | stream, ordered queues |
| Endpoint administration (`api/routes/endpoints.py`) | rows of `endpoints` | create, patch, delete with its cascade, breaker reset | ingestion, worker, breaker |
| Replay (`api/routes/dlq.py`) and approved actions (`api/routes/diagnoses.py`) | `deliveries` | select dead rows, reset them in one commit, breaker reset, ZREM, RPUSH, XADD | retry set, ordered queues, stream, breaker |
| Worker processes (`delivery/worker.py`: `run_worker`, `supervise_shards`, `consume_shard`) | the consumer group, a task per shard | start, read, reclaim, back off, respawn, stop | stream, handlers |
| Handler (`delivery/worker.py`: `handle_message` and what it calls) | pending-entries list of the consumer group, `deliveries`, `delivery_attempts` | lock, peek, gates, POST, record, schedule, pop, release, ACK | everything below |
| Retry set and scheduler (`delivery/retry_queue.py`, `retry_scheduler.py`) | ZSET `relay:retries` | schedule, move due members to the stream, remove | workers, replay |
| Ordering (`delivery/ordering.py`) | a list and a lock per ordered endpoint | RPUSH, SET NX PX, LINDEX 0, LREM, compare-and-delete | workers, API |
| Retry policy (`delivery/retry.py`, `sender.py`) | none | classify an answer, next delay or give up | worker |
| Circuit breaker (`delivery/circuit_breaker.py`) | a hash and two ZSETs per endpoint | allow, record outcome, reset, auto-disable | worker, API, agent trigger |
| Rate limit, concurrency cap (`delivery/rate_limit.py`) | a bucket and a ZSET of slots per tenant | take a token; acquire, release a slot | worker |
| Agent (`agent/graph.py`, `tools.py`, `llm.py`) | `diagnoses`, `agent_actions` | triage, investigate, hypothesize, verify, report | LLM, approvals API |
| Agent trigger (`agent/trigger.py`) | Redis budget keys, a subscription | subscribe, receive, claim budget, run | breaker events, agent |
| Everything else | | auth, tenants, reads, signing, metrics, schemas, dashboard, demo | |

Nothing is transactional across Postgres and Redis, and every `await` lets
another request, worker or the scheduler run. What is hard, therefore:

* a worker or an API request may die between any two steps, so a row and the
  queues disagree;
* a stream entry may be handled twice: reclaimed from a worker that is merely
  slow, or written twice by a retry and a replay;
* a lock may outlive its holder, or expire under it;
* the worker decides on a view of the row it read before it waited for the lock
  and the gates;
* Lua scripts are atomic, but a handler makes several, with a time it read at
  its start;
* a breaker that waits for a probe depends on somebody reporting back;
* Redis may go away, and come back without its data; pub/sub forgets what nobody
  was there to hear;
* a session flushes when it runs a query, so an insert fails where nobody
  expects it;
* budgets are kept in keys with a TTL, and read, counted and given back in
  separate calls, with midnight in between;
* a model call may answer anything, and only the code bounds it.

What makes each part correct: one event per idempotency key; no entry without
its row and its place in the queue; no accepted delivery is lost; an ordered endpoint
is served in enqueue order and one POST at a time; a delivery that settles
frees the head of its queue; attempts are counted, audited and bounded; a
delivery settles in the end; the breaker decides on its probe alone, triggers
at most once per streak, does not retrip on old failures and disables no endpoint early; limits are
neither exceeded nor refuse without cause; a diagnosis run ends within its
budget, leaves an honest row where it fails, and is not started more often than the
hour and the day allow.

## 2. The modules

| Module | Models | State and actions |
|---|---|---|
| `RetryPolicy` | `retry.py`, the classification in `sender.py` | operators only: `next_delay_seconds` and what it calls. Delays are intervals in tenths of a second, so jitter is exact |
| `RetryCycle` | the sequential core of `process_delivery` | one delivery, any sequence of answers and `Retry-After` headers (NaN too, at which `timedelta` raises and the entry is reclaimed), any `max_attempts` |
| `DeliveryPipeline` | handler, ordering, retry set, scheduler, ingestion, replay on one shard | Postgres rows, Redis stream, pending list, ZSET, lists and locks, one program counter per worker and per API request |
| `DeliveryLifecycle` | the life of a delivery that `DeliveryPipeline` is to implement | accept, attempt, conclude, replay |
| `ShardConsumers` | `run_worker`, `supervise_shards`, `consume_shard`, `reclaim_stale`, `ensure_group`, and Redis under them | one shard task per process, group, stream, pending list; outages, wipes, dead tasks, signals |
| `Ingestion` | `ingest_event`, `endpoints.py`; EXTENDS `ShardConsumers` | requests with their idempotency keys, committed rows, endpoints, ordered queues |
| `CircuitBreaker` | both Lua scripts, `record_outcome`, auto-disable, the gates of `worker.py` around them | breaker hash, sliding window, clock, handlers; `RecordOutcome` is the script, `Publish` the PUBLISH after it |
| `TokenBucket`, `RateContract` | `TOKEN_BUCKET_LUA`; the leaky bucket it is to implement | bucket, key expiry, clock, handlers; `Start` reads the time, `TakeToken` is the script, up to `MaxLag` ticks later |
| `TenantGates` | `ACQUIRE_SLOT_LUA`, `release_slot`, behind the bucket; EXTENDS `TokenBucket` | slots with expiry, handlers past the bucket |
| `AgentTrigger` | `trigger.py` | budget keys with their expiry, listeners and their messages, clock and midnight |
| `AgentRun` | `graph.py`, `request_mutation`, the calls and retries of `llm.py`, approve and reject | node, loop counters, attempts of a call, cost, diagnosis row, actions, operators |
| `MC*` | | model values and symmetry for TLC |
| `*Proofs` | | theorems |

`DeliveryPipeline` EXTENDS `RetryPolicy`: the outcome of an attempt is what
`next_delay_seconds` says. The three gates are open choices in
`DeliveryPipeline` and are modelled in modules of their own, since they share no
state with the queues; `CircuitBreaker` in turn has the rate limit and the cap
as an open choice, for they decide after it and are what a probe can be lost to.
`TenantGates` composes those two as the worker calls them. `Ingestion` composes
the API with the worker processes; there a handler is one step, which ends in an
acknowledgement or in none, while `DeliveryPipeline` opens it up and has no
processes. `AgentTrigger` starts what `AgentRun` is one of.

How `DeliveryPipeline` follows `deliver_with_gates`: the worker's `pc` names the
next call.

| pc | code | pc | code |
|---|---|---|---|
| load | session.get, early returns | send | send_delivery |
| lock | acquire_lock | record | second commit of process_delivery |
| peek | peek_head | schedule | schedule_retry |
| yield | release_lock when not at the head | refresh | session.refresh, record_outcome |
| gates | check_gates, acquire_slot | pop | pop_head |
| defer | defer_delivery | release | release_lock in the finally block |
| begin | first commit of process_delivery | ack | XACK |

An API request is `next` between two deliveries of its loop, and `commit`,
`clear`, `push`, `xadd` at those calls. `view` is the row as the worker's session
holds it: the engine sets `expire_on_commit=False`, so the second SELECT of
`process_delivery` does not refresh it, and `Begin` counts from the value `Load`
read. A *slot* is the identity of a stream entry from read to last reference.
`Orphan` is the token of a holder that is gone.

`Ingestion` follows `ingest_event` in the same way: `new` is the lookup,
`select` the SELECT of the active endpoints, `commit` the commit, `conflict` the
except branch, then `enqueue`, `push` and `xadd` for each delivery. The engine
leaves SQLAlchemy's autoflush on, so the SELECT flushes the new event first: the
unique constraint is met there and not at the commit, and an INSERT of a key
that another open transaction holds waits for its end (`Contended`). An
`AgentTrigger` listener is at `claim`, `count`, `expire`, `verdict` at the calls
of `claim_budget`; a day is named by the midnight that ends it, so the date that
was read and the date of the call may differ.

Abstractions: due times are "some later moment", so a batch of
`MOVE_DUE_LUA` is a sequence of single moves; a payload is its delivery's name; a
POST is its status; one shard is modelled, for an endpoint's deliveries all hash
to the same one and shards share no key. The history variables `ahead`,
`pushed`, `posted`, `settledOnce`, `deactivated`, `abandoned` are read by
properties only, and so are `astray`, the deliveries a failed handler or a replay
left in their queue; `owing`, `sent` and `lost` of the breaker, the triggers of
the present streak; and `age` and `overrun` of the bucket. A replay sets `rows` to zero although the old `delivery_attempts` stay:
`rows` counts those since the delivery was accepted or last replayed, as
`attempt_count` does.

## 3. The runs

Every passing run is exhaustive within its bounds.

| Run | Instance | Shows |
|---|---|---|
| `pipeline_faults` | two deliveries of one ordered endpoint, 2 workers, one crash or exception anywhere, one lock expiring under a live holder, one entry stolen from a live handler | `TypeOK`, `NoLostDelivery`, `OrderedFIFO`, `OneInFlight`, `HeadAnsweredFor` |
| `pipeline_calm` | one event fanned out to an ordered and an unordered endpoint, three kinds of answer, 2 attempts, a replay, a status change, a request that dies | `NoLostDelivery`, `HeadAnsweredFor`, `AuditComplete`, `FollowsLifecycle` |
| `pipeline_live` | two ordered deliveries, 2 workers, 2 attempts at a receiver that never answers, one crash or exception, fairness of the loops, gates free to refuse | `EventuallySettled` |
| `intake` | two requests with one key, one ordered endpoint, two endpoint operations, one worker process, one Redis outage with or without a wipe, two failures anywhere, fairness, deadlock checked | `TypeOK`, `AnswersAgree`, `RowBeforeEntry`, `QueueBeforeEntry`, `EventuallyHandled` |
| `retry_cycle` | the real schedule; answers 200, 302, 401, 408, 429, 503 and a transport error; `Retry-After` absent, a date, negative, zero, small, above the cap and NaN; `max_attempts` from 1 to 8 | `TypeOK`, `BudgetSpent`, `WaitsAsScheduled` |
| `breaker` | 2 handlers, trigger at 2, threshold at 4, window minimum 4, one crash, one reset, one status change, 5 time units | `TypeOK`, `ProbeAlone`, `TriggerOnce`, `NoInstantRetrip`, `DisableDecision` |
| `tenant_gates` | 3 handlers, burst of 2, readings up to one tick old, cap of 2, two deaths, 7 ticks with keys and slots that live for 3 | `TypeOK`, `GatesTypeOK`, `RateUpToRewinds`, `MeetsContract`, `CapRespected`, `RefusedAtCap` |
| `agent_trigger` | 2 listeners, 2 endpoints, three messages, one interruption, a day of 3 ticks with one run, a claim of 2 ticks, fairness | `TypeOK`, `DailyCap`, `SpacedRuns`, `GivenBack`, `AlwaysDrains` |
| `agent_run` | any model, two operators, two actions, two retries of a model call, fairness | `TypeOK`, `CostBounded`, `HonestRecord`, `DecidedOnce`, `RunEnds` |
| `stranded_by_crash` | `pipeline_faults`'s endpoint, retries, no replay | `HeadNotStranded` **fails** |
| `lost_by_request` | one delivery, one request that dies, fairness | `EventuallySettled` **fails** |
| `probe_leak` | breaker, no crash, reset or patch | `HalfOpenHasProbe` **fails** |

Why these bounds are enough to make the interesting cases happen. Order and
mutual exclusion are about two deliveries of one endpoint, and about two workers
that hold them; a third of either only repeats a pair. Three slots let a delivery
have one entry in the hands of each worker and one that a dead worker left. One
fault is placed at every point of every handler; two are not needed to separate
a row from the queues. `MAX_ATTEMPTS = 2` is one retry and one exhaustion; where
retries add nothing to the property (`pipeline_faults`) one attempt keeps the
state space within minutes, a failed delivery then being dead at once. The replay
is in `pipeline_calm`, where one ordered delivery is enough for its handler and a
second copy of itself; replays with any number of deliveries behind the head are
in the proof of `HeadAnsweredFor`. For progress, the receiver of `pipeline_live`
never answers, so each delivery takes the longest way, a retry and then death,
and two of them wait for each other. In the breaker there is
room for a second failure between the trigger and the threshold, outcomes
leave the window within the horizon, and the horizon spans an opening, a probe, a second opening and the
disable limit. In the gates a lag of one tick lets a script run behind a
later one, three handlers let the next one use
what it gave back, and the horizon sees the bucket's key and a slot of a dead
handler expire. A race on an idempotency key is one of two requests, and one endpoint
is enough for a commit to meet a deletion; two failures let a process die with
an entry in hand and its successor fail too. For the trigger, two listeners
claim for the same or for different endpoints against a day with room for one run,
the third message comes after a claim has expired or been given back, and the
horizon lets midnight fall between any two calls.

Deadlock is checked in `intake`, where the workers always have something to do;
the other models come to rest when their bounded inputs are used up. Symmetry is used over workers, slots and requests in safety runs only.

Each property of a passing run comes with a mutant, an operator next to the
definition it alters, that breaks the property under the run's own configuration.

### Fairness

`FairSpec` of `DeliveryPipeline` assumes that a worker's handler, the scheduler
and a request in service always get to run again (each is a loop or a coroutine;
a POST has a timeout, and Redis and Postgres are assumed to answer or to fail); that a lock
ends (PX); that the reclaim pass runs although the stream is never empty
(`consume_shard` makes it before the next read once its interval is over, hence
strong fairness). Nothing is assumed of the gates, which need not open (see
`probe_leak`), nor of who wins an ordering lock, for with two workers on one shard
(`docker-compose.prod.yml` runs two) each may keep finding the lock taken by the
other. `EventuallySettled` says instead what the code can promise: a
delivery settles unless handlers of its endpoint are turned away again and
again for ever (`TurnedAway`: by a gate, or by the lock of another handler), or a
settled head was left in front of it (`Wedged`). Crashes,
exceptions, steals, new requests and status changes are never assumed to
happen. `AgentRun` assumes that the process keeps running and the model answers
or raises (the client library's business).

`Ingestion` assumes that a process is scheduled, that a container that ended is
started again (the restart policy of the compose file), that the supervisor acts
on the stop event, that the reclaim interval passes, that requests in service go
on, and that Redis comes back. Failures, outages, wipes and endpoint operations
are never assumed. `AgentTrigger` assumes that a trigger process keeps running,
is restarted when it ends, and that a run ends, which is `RunEnds` of `AgentRun`;
messages, interruptions and the clock are not fair.

## 4. What the violations show

* **A crash can wedge an ordered endpoint** (`stranded_by_crash`). A worker that
  dies between committing `delivered` or `dead` and `pop_head` leaves the entry
  to be reclaimed; the second handler returns early (`worker.py:226`) and
  acknowledges it without popping. The settled delivery heads the queue for ever.
* **An accepted event can be lost** (`lost_by_request`). Deliveries that are
  committed but not enqueued stay `pending`; the recovery sweep that the comment
  at `events.py:91-93` counts on does not exist.
* **The breaker can shut for good** (`probe_leak`). The probe may be deferred by
  the rate limit or the cap after `ALLOW_REQUEST_LUA` promoted the breaker, and
  `half_open` has no timeout.

## 5. What is proved

All theorems hold for every value of the constants that meets the named
assumptions: any number of workers, requests, endpoints, deliveries and faults.

| Theorem | Module | Assumes beyond the module's ASSUMEs |
|---|---|---|
| `TypeCorrect`, `OneInFlightCorrect`, `OrderedFIFOCorrect`, `HeadAnsweredForCorrect` | `DeliveryPipelineProofs` | |
| `NoLostDeliveryCorrect` : `[]NoLostDelivery` | `DeliveryLifecycleProofs` | |
| `AuditCorrect` : `[]AuditComplete` | `DeliveryLifecycleProofs` | `[]Calm` |
| `LifecycleCorrect` : refinement of `DeliveryLifecycle` | `DeliveryLifecycleProofs` | `[]Calm` |
| `TypeCorrect`, `AnswersAgreeCorrect`, `RowBeforeEntryCorrect`, `QueueBeforeEntryCorrect` | `IngestionProofs` | |
| `TypesCorrect`, `BudgetSpentCorrect`, `WaitsCorrect` (`WaitsAsScheduled`) | `RetryCycleProofs` | `ScheduleCovers` |
| `TypeCorrect`, `ProbeAloneCorrect`, `TriggerOnceCorrect`, `DisableDecisionCorrect`, `NoInstantRetripCorrect` | `CircuitBreakerProofs` | |
| `RateUpToRewindsCorrect` : `[]RateUpToRewinds` | `TenantGatesProofs` | |
| `BucketImplementsContract` : refinement of `RateContract` | `TenantGatesProofs` | |
| `GatesImplementBucket` : both also hold of the composed gates | `TenantGatesProofs` | |
| `BucketTypeCorrect`, `GatesTypeCorrect`, `CapRespectedCorrect`, `RefusedAtCapCorrect` | `TenantGatesProofs` | |
| `TypeCorrect`, `CostBoundedCorrect`, `RecordCorrect` (`HonestRecord`), `DecidedOnceCorrect` | `AgentRunProofs` | |
| `TypeCorrect`, `DailyCapCorrect`, `GivenBackCorrect`, `SpacedRunsCorrect` | `AgentTriggerProofs` | |

* **TypeCorrect.** `TypeOK` is inductive as it stands because it carries the
  coupling of program counter and data: an idle worker is exactly `Idle`, a busy
  one has a slot and a delivery. One lemma per group of variables; `LREMFacts`
  says what removing the first occurrence does to a list.
* **OneInFlightCorrect.** `OneInFlight` speaks of `send` only and is not
  inductive. `LockInv` adds that a worker between the lock and its release holds
  a token, and the lock of its endpoint carries its name. A crash turns the
  lock's value into `Orphan`, which nobody matches. The invariant is kept until
  a lock expires under a live holder, which the TTL of 30 s is to prevent: a
  handler's POST ends after 10 s.
* **OrderedFIFOCorrect.** Order rests on the queue alone, so the theorem holds
  through expiries and steals too. `OrderInv` adds four parts to `OrderedFIFO`.
  `Known`: stream, pending list, retry set, workers, settled rows and POSTs only
  concern ordered deliveries that were pushed. `AheadInv`: what is ahead of a
  delivery was pushed to the same endpoint. `QueueInv`: a pushed delivery that has
  never settled is in its queue, in front of every entry that has it ahead.
  `TurnInv`: a worker past `peek_head` has only settled deliveries ahead of it, and
  pops only what has settled. `WorkerMoves` says once what a step may do to a
  worker; `QueuePushed` and `QueuePopped` are RPUSH and LREM.
* **NoLostDeliveryCorrect.** That a delivery is somewhere is not inductive: an
  acknowledgement takes the pending entry away, and only what its handler did
  before tells that nothing is lost with it. In `LossInv` a pending entry
  *carries* its delivery while nobody handles it or its handler has not handed
  over yet (scheduled a retry, deferred it or settled it); every owed delivery is
  carried by an entry, the stream, the retry set or a request (`AllCarried`); and
  an entry has one handler (`OneHandler`), which is what a steal breaks.
  `IdleRequests` and `ActiveKnown` are the two small facts the request and status
  steps need.
* **HeadAnsweredForCorrect.** That a settled head has a handler about to pop it, or
  is astray, is not inductive: a pop brings forward what stood behind. `Leaving`
  says it of every queue entry that is not astray, and `NoTwins` that a queue
  holds no such delivery twice, so that LREM of one copy is enough. A push of a
  delivery that is still queued or has settled makes it astray (`PushedAlone` is
  the other case), a pop takes the only copy (`PoppedGone`), and a handler past
  its commit stays until it pops or fails (`PopperStays`). No condition on faults,
  steals, expiries or replays is left: the exceptions are deliveries, not runs.
* **AuditCorrect, LifecycleCorrect.** `Calm` says that no worker failed, no entry was
  stolen and no two replays have selected the same row at a time; section 6 says
  why each is needed. Any number of workers, requests, retries, replays, expired
  locks, dead requests and paused endpoints remain. In `CalmInv` a delivery has one
  carrier, which is the stream, the retry set, one worker or one request
  (`Alone`); the carrier's idea of the row is the row (`Expected`: for a worker,
  `view = row` from its load on); and attempts, audit rows and budget agree with
  the status (`Counted`). `Once` and `Handled` say that an entry is read once and
  acknowledged by its reader. With them every step that writes a row is a step of
  `DeliveryLifecycle` (`Accept`, `Attempt`, `Conclude`) under the mapping `Life`,
  and the others leave the mapped rows alone.
* **Ingestion.** One invariant, `IngestInv`, for all four. `KeyInv`: a request that enqueues
  is committed, one that has not decided is not, and whoever stands before its commit is alone
  with its key (the flushed insert holds the unique index). `WriteInv`:
  what a request still has to enqueue is committed or its endpoint is gone. `PushInv`:
  an ordered delivery whose XADD is next is in its queue, unless Redis lost its data.
  The types of the consumers are part of it, since a reclaim or a read only
  moves entries.
* **RetryCycle.** `ScheduleCovers` says that `max_attempts` is at most 8, one more than
  the delays of the schedule; above it `next_delay_seconds` gives up early and
  `BudgetSpent` is false. The
  answers are numbers and a header is absent, a date, a number or NaN
  (`AnswerAssumption`), and
  `max_attempts` is positive (`MaxAssumption`). `CycleInv` adds to the three properties that a
  delivery that goes on has attempts left. The schedule is a constant of seven entries, so no
  induction is needed: `ScheduleFacts` evaluates it.
* **ProbeAloneCorrect.** `ProbeInv` adds `Stragglers`: while the breaker is
  open, every handler that is past it started no later than `last_probe_at`.
  With `ProbeAssumption` (a handler is shorter than the probe interval) all
  stragglers are gone when the next probe is due.
* **TriggerOnceCorrect, DisableDecisionCorrect.** A failure never closes the
  breaker, so a streak seen in `closed` was recorded in `closed` from its first
  failure on. `StreakInv` adds to `TriggerOnce` that whoever owes a trigger is at
  its PUBLISH; a handler that fails there moves it from `owing` to `lost`, a reset
  or a success starts a new streak. The decision compares with `opened_at`, and
  `DownInv` says that the breaker left `closed` no later than that.
* **NoInstantRetripCorrect.** `WindowInv` says that while fewer than `Enough` outcomes
  (the smaller of the two thresholds) were recorded since the breaker was last
  closed, neither streak nor window is longer than that. The trimming of the window
  is written with `Expired`, the number of outcomes too old, and a `SubSeq` behind it
  (the list is in order of time), so the prover needs only its length and not an induction over the list.
* **The bucket.** A script may run `MaxLag` later than its handler read the time,
  for every `MaxLag`. `overrun` counts the grants beyond one per tick, less what
  late scripts gave back by moving `updated_at` (`Rewind`). `BucketInv` covers it by
  the part of the burst that is `Spent`, and the lag.
  The refinement maps the contract's level to `RATE - Refilled(clock)` and the
  answer's `age` to itself: with a reading that old the level may be off by as
  many ticks and by no more. A tick of the clock is a drain or a stutter, the
  key's expiry a stutter since by then the bucket is full
  (`KeyTTL >= RATE + MaxLag` in ticks). A step of the gates is a step of the bucket
  or leaves it alone, so both results carry over to the composition.
* **The cap.** `SlotInv` says that a handler at work owns exactly one slot, that no
  two share a token, and that any other slot belongs to a handler that died and
  is in `leaked` until it ages out. The handlers at work then inject into what a
  sweep leaves, since the TTL outlives a handler (`TTLAssumption`); a refusal
  counts the same set from the other side.
* **The run.** `CostInv` counts the calls a node can still make once the budget
  is crossed (`LateCalls`, up to five). `RecordInv` adds that there is no row
  before the stub. `DeskInv` adds that an
  uncontended action in an operator's hands is pending and in nobody else's.
* **The trigger.** `BudgetInv` has two halves. For the day: `InDay` (the clock is
  within today), `KeyLives` (a day's key lives for at least a day beyond it, so no
  claimant finds it expired) and `KeyCounts` (what was granted is at most what
  the key counts). For the hour: `ClaimHolds` (a claimant's date is that of its
  claim, its key is in force and the last run's claim had expired), `ClaimAlone`
  (no two claimants of an endpoint) and `RunCovered` (the key reaches as far as the
  last run's claim, or that has expired). They need `VerdictMax < Window`: a
  verdict, three Redis calls, takes less than the claim lasts.

Every invariant and action property of the passing runs is proved. Only
model-checked: liveness (`EventuallySettled`, `EventuallyHandled`, `RunEnds`,
`AlwaysDrains`), since the prover handles neither fairness nor ENABLED; and the
values of the delays in `RetryPolicy` beyond the bounds `WaitTypes` states.

## 6. Known limits

Behaviour of the code that a reader may not expect and that the properties name
as an exception or do not reach:

* An entry read while its endpoint is paused or disabled is acknowledged and
  dropped (`worker.py:234-240`); nothing enqueues the delivery again when the
  endpoint is active. `NoLostDelivery` excludes endpoints that were deactivated.
* An exception or crash between `schedule_retry` and XACK gives a delivery two
  entries. Their handlers count from their own view of the row
  (`worker.py:79-80`, `:94`), so `delivered` may be overwritten by a later commit.
  `FollowsLifecycle` and `AuditComplete` are checked without
  worker faults. A crash at the POST alone breaks `AuditComplete`: the attempt is
  counted before it and its row written after it.
* A replay that commits after the outcome `dead` and before that handler's
  refresh (`worker.py:297`) makes the handler read `pending` and pop nothing; with
  the replay's RPUSH (`dlq.py:92`) the queue holds the delivery twice, the next
  handler pops one copy, and the other wedges the queue as in
  `stranded_by_crash`. `HeadAnsweredFor` names it as the second exception.
* Two replays of the same rows at the same time break `AuditComplete`. It speaks
  of the audit rows since the last replay, which resets `attempt_count` and keeps
  the old rows.
* `OneInFlight` fails when the lock expires under a live holder; `OrderedFIFO`
  does not. `NoLostDelivery` fails when an entry is taken from a live handler: the
  other one acknowledges it, this one overwrites the row and dies.
* With two workers on one shard, handlers of one ordered endpoint may keep
  deferring each other at the lock, and a gate may refuse for ever; nothing counts
  or bounds deferrals. `EventuallySettled` is conditional on neither.
* An exception between `acquire_lock` and the try block (`worker.py:242-257`)
  leaves the lock to its TTL: modelled in `Raises`.
* A deferral overwrites a longer backoff that is already in the ZSET; due times
  are abstracted, so no property sees it.
* A `Retry-After` of `nan` passes both comparisons of `retry.py:61-65`; `timedelta`
  (`worker.py:137`) then raises after the POST, so the attempt is counted without an
  audit row and repeated when the entry is reclaimed. `RetryCycle` has this; in
  `DeliveryPipeline` it is one of the exceptions of `Raises`.
* `max_attempts` above 8 has no effect beyond the schedule's length.
* A failed probe writes `opened_at` anew (`circuit_breaker.py:100`). The README's
  auto-disable after 72 hours open therefore needs 72 hours without any probe.
* The breaker may close between the decision to disable and its commit
  (`worker.py:194-196`): the decision is checked, the commit is unconditional.
* A trigger is lost if its handler fails, or Redis does, between
  `RECORD_OUTCOME_LUA` and PUBLISH (`circuit_breaker.py:182`), and may come after the
  breaker has opened, closed or been reset: `TriggerOnce` is at most one per
  streak, with `lost` as the only reason for none.
* The bucket is to keep "its own clock" (`rate_limit.py:12-13`), but gets the time
  its caller read at `worker.py:222`, several awaits earlier, and stores it
  (`rate_limit.py:38`). A script that runs late moves `updated_at` back and the next
  one refills the same time again, so the grants in `n` ticks are not bounded by
  `RATE + n`, nor by that and the lag: `RateUpToRewinds` adds what late
  scripts gave back, and `MeetsContract` says that nothing else is off.
* All handlers of a tenant share one clock in `TokenBucket`; workers whose clocks
  differ would add the skew to the lag.
* Two operators may both decide on an action (`diagnoses.py:111`); `DecidedOnce`
  excludes contended actions. An approved `replay_dlq` does not RPUSH, which
  `DeliveryPipeline` models (kind `approve`).
* `verified` is set by a tool's name (`graph.py:141`), in `investigate` too and also
  when the tool returned an error (`tools.py:327-330`), so a hypothesis "never
  tested against a live probe or DNS/TLS check" (`graph.py:4-6`) may keep the
  confidence the model claims. `AgentRun` models the flag; no property is stated
  of it, for the one that should hold does not.
* The cost cap is looked at in the tool loops only.
* A run that fails at once, or a trigger process cut off before the verdict, has
  used up the endpoint's window (`trigger.py:51`); `GivenBack` excludes the latter.
* `3600 // n` rounds down and 0 counts as 1 (`trigger.py:50`): for `n = 7` an eighth
  run fits into the hour. `SpacedRuns` is about the window the code computes.
* A breaker event published while no listener is subscribed is gone
  (`trigger.py:149`), and each trigger is published once per streak.
* The loser of a race on an idempotency key is answered 500. The session flushes
  the event at the SELECT of the endpoints (`events.py:63-70`), so the
  `IntegrityError` is raised before the try block whose except branch is to
  "Return its event_id" (`events.py:82-83`). What reaches that branch is the
  foreign key of an endpoint that was just deleted, which it takes for a lost
  race: it finds no event and refuses with 500. `Ingestion` models both;
  `AnswersAgree` is about the answers that accept.
* A retry with the key of a request that failed between its commit and its last
  XADD is answered 202 (`events.py:47`) and enqueues nothing.
* A Redis that loses its data loses the entries with it; their rows stay
  `pending`. `EventuallyHandled` excludes them (`wiped`), and requests that ended
  before their XADD (`abandoned`), as `lost_by_request` shows.
* `inflight_count` sweeps too, but only tests call it.

## 7. Not modelled

Signing (a hash), authentication and tenants (lookups and one insert), schemas
and migrations (declarations), reads, metrics, logging, the dashboard and demo
tooling have no state that steps of several actors share. Of the LLM adapter the
translation of messages, the cache that replays a provider's own messages and
the prompts are formatting; of the agent's tools, what they look up is data.

Left out within modelled parts, and what would come next: several shards in one
process (they share no key, only the HTTP client's connection pool); the breaker
and the tenant gates composed into `DeliveryPipeline` in place of its open gates,
whose product is out of TLC's reach at the bounds above; deletion of an endpoint
under its handlers, which ends in the early return for a missing row.
