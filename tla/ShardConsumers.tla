--------------------------- MODULE ShardConsumers ----------------------------
(***************************************************************************)
(* The worker processes that consume one shard (delivery/worker.py:        *)
(* run_worker, supervise_shards, consume_shard, reclaim_stale) and the     *)
(* Redis stream they read, which may be unreachable for a while or lose    *)
(* everything it holds.  What handling an entry does is the subject of     *)
(* DeliveryPipeline; here it ends in an acknowledgement or in none.        *)
(***************************************************************************)
EXTENDS Naturals, Sequences, SequencesExt

CONSTANTS
    Workers,        \* worker processes, one task per shard in each
    MaxOutages,     \* bound: times Redis goes away
    MaxWipes,       \* bound: times it comes back empty
    MaxFailures     \* bound: handler errors, dead tasks, dead processes, signals

ASSUME ShardAssumption ==
    /\ MaxOutages \in Nat /\ MaxWipes \in Nat /\ MaxFailures \in Nat

VARIABLES
    up,         \* Redis answers
    group,      \* the consumer group exists
    stream,     \* entries not yet given to the group
    pel,        \* entries given to a consumer and not acknowledged
    task,       \* per process: where its shard task stands
    spent,      \* the faults so far
    handled,    \* history: deliveries whose entry was acknowledged
    wiped       \* history: deliveries whose entry was lost with Redis' data

shard == <<up, group, stream, pel, task, spent, handled, wiped>>

\* todo: entries in hand; due: reclaim_stale is due; stop: the stop event is set.
Down == [pc |-> "down", todo |-> <<>>, due |-> TRUE, stop |-> FALSE]

ShardInit ==
    /\ up = TRUE
    /\ group = FALSE
    /\ stream = <<>>
    /\ pel = {}
    /\ task = [w \in Workers |-> Down]
    /\ spent = [outages |-> 0, wipes |-> 0, failures |-> 0]
    /\ handled = {}
    /\ wiped = {}

At(w, p) == task[w].pc = p
Move(w, p) == task' = [task EXCEPT ![w].pc = p]
Fail == /\ spent.failures < MaxFailures
        /\ spent' = [spent EXCEPT !.failures = @ + 1]

\* Mutant of EnsureGroup: the group starts at the end of the stream ("$").
EnsureGroupAtEnd ==
    IF up THEN /\ group' = TRUE
               /\ stream' = IF group THEN stream ELSE <<>>
          ELSE UNCHANGED <<group, stream>>

\* ensure_group, errors suppressed by both callers: XGROUP CREATE at id 0
\* with mkstream, so that entries added before it are still given out.
EnsureGroup ==
    IF up THEN group' = TRUE /\ UNCHANGED stream
          ELSE UNCHANGED <<group, stream>>

\* run_worker: create the groups, then supervise_shards spawns the tasks.
StartWorker(w) ==
    /\ At(w, "down")
    /\ EnsureGroup
    /\ Move(w, "loop")
    /\ UNCHANGED <<up, pel, spent, handled, wiped>>

InHand == UNION {ToSet(task[w].todo) : w \in Workers}

\* Redis refuses the call: a connection error, or NOGROUP.
Refuses == ~up \/ ~group

\* consume_shard, top of the loop: reclaim_stale when it is due.  Entries idle
\* for RECLAIM_MIN_IDLE_MS are those no live handler has in hand.
Reclaim(w) ==
    /\ At(w, "loop") /\ ~task[w].stop /\ task[w].due
    /\ \/ /\ Refuses
          /\ Move(w, "backoff")
       \/ /\ ~Refuses
          /\ task' = [task EXCEPT ![w].pc = "reclaim", ![w].todo = SetToSeq(pel \ InHand)]
    /\ UNCHANGED <<up, group, stream, pel, spent, handled, wiped>>

\* XREADGROUP for one new entry; an empty answer after BLOCK_MS ends the turn.
\* A reclaim that got this far sets next_reclaim.
Read(w) ==
    /\ \/ At(w, "loop") /\ ~task[w].stop /\ ~task[w].due
       \/ At(w, "reclaim") /\ task[w].todo = <<>>
    /\ \/ /\ Refuses
          /\ task' = [task EXCEPT ![w].pc = "backoff", ![w].due = FALSE]
          /\ UNCHANGED <<stream, pel>>
       \/ /\ ~Refuses /\ stream = <<>>
          /\ task' = [task EXCEPT ![w].pc = "loop", ![w].due = FALSE]
          /\ UNCHANGED <<stream, pel>>
       \/ /\ ~Refuses /\ stream # <<>>
          /\ stream' = Tail(stream)
          /\ pel' = pel \cup {Head(stream)}
          /\ task' = [task EXCEPT ![w].pc = "handle", ![w].due = FALSE,
                                  ![w].todo = <<Head(stream)>>]
    /\ UNCHANGED <<up, group, spent, handled, wiped>>

Handling(w) == task[w].todo # <<>>

\* The first entry in hand is done with; after a read the loop starts again.
Advance(w) ==
    task' = [task EXCEPT ![w].todo = Tail(@),
                         ![w].pc = IF @ = "handle" THEN "loop" ELSE @]

\* handle_message: the outcome is committed and XACK takes the entry off the list.
HandleAck(w) ==
    /\ Handling(w) /\ up
    /\ pel' = pel \ {Head(task[w].todo)}
    /\ handled' = handled \cup {Head(task[w].todo)}
    /\ Advance(w)
    /\ UNCHANGED <<up, group, stream, spent, wiped>>

\* handle_message: deliver_with_gates raises, for want of Redis or for another
\* reason; the entry stays pending.
HandleError(w) ==
    /\ Handling(w)
    /\ \/ ~up /\ UNCHANGED spent
       \/ up /\ Fail
    /\ Advance(w)
    /\ UNCHANGED <<up, group, stream, pel, handled, wiped>>

\* Mutant of AckError: the entries in hand are kept through the back-off.
AckErrorKeeps(w) ==
    /\ Handling(w) /\ ~up
    /\ Move(w, "backoff")
    /\ UNCHANGED <<up, group, stream, pel, spent, handled, wiped>>

\* XACK itself raises: consume_shard backs off with what it had in hand.
AckError(w) ==
    /\ Handling(w) /\ ~up
    /\ task' = [task EXCEPT ![w].pc = "backoff", ![w].todo = <<>>]
    /\ UNCHANGED <<up, group, stream, pel, spent, handled, wiped>>

\* consume_shard after a Redis error: sleep, ensure_group, go on.
EndBackoff(w) ==
    /\ At(w, "backoff")
    /\ EnsureGroup
    /\ Move(w, "loop")
    /\ UNCHANGED <<up, pel, spent, handled, wiped>>

\* RECLAIM_INTERVAL_S has passed.
ReclaimDue(w) ==
    /\ ~At(w, "down") /\ ~task[w].due
    /\ task' = [task EXCEPT ![w].due = TRUE]
    /\ UNCHANGED <<up, group, stream, pel, spent, handled, wiped>>

\* An error consume_shard does not catch, or a stop event it has seen, ends the task.
TaskEnds(w) ==
    /\ \/ At(w, "loop") /\ task[w].stop /\ UNCHANGED spent
       \/ task[w].pc \in {"loop", "reclaim", "handle"} /\ Fail
    /\ task' = [task EXCEPT ![w].pc = "ended", ![w].todo = <<>>]
    /\ UNCHANGED <<up, group, stream, pel, handled, wiped>>

\* supervise_shards: a task that ended before the stop event is started anew.
Respawn(w) ==
    /\ At(w, "ended") /\ ~task[w].stop
    /\ task' = [task EXCEPT ![w] = [Down EXCEPT !.pc = "loop"]]
    /\ UNCHANGED <<up, group, stream, pel, spent, handled, wiped>>

\* SIGTERM or SIGINT.
Signal(w) ==
    /\ ~At(w, "down") /\ ~task[w].stop
    /\ Fail
    /\ task' = [task EXCEPT ![w].stop = TRUE]
    /\ UNCHANGED <<up, group, stream, pel, handled, wiped>>

\* supervise_shards sees the stop event and cancels the tasks where they are;
\* or the process dies.
WorkerEnds(w) ==
    /\ \/ task[w].stop /\ UNCHANGED spent
       \/ ~At(w, "down") /\ Fail
    /\ task' = [task EXCEPT ![w] = Down]
    /\ UNCHANGED <<up, group, stream, pel, handled, wiped>>

\* Redis goes away and comes back, with its data or without.
Outage ==
    /\ up /\ spent.outages < MaxOutages
    /\ up' = FALSE
    /\ spent' = [spent EXCEPT !.outages = @ + 1]
    /\ UNCHANGED <<group, stream, pel, task, handled, wiped>>

Recover ==
    /\ ~up
    /\ up' = TRUE
    /\ UNCHANGED <<group, stream, pel, task, spent, handled, wiped>>

RecoverEmpty ==
    /\ ~up /\ spent.wipes < MaxWipes
    /\ up' = TRUE
    /\ group' = FALSE
    /\ stream' = <<>>
    /\ pel' = {}
    /\ spent' = [spent EXCEPT !.wipes = @ + 1]
    /\ wiped' = wiped \cup ToSet(stream) \cup pel
    /\ UNCHANGED <<task, handled>>

\* What a running process and its container do by themselves.
Progress(w) ==
    \/ StartWorker(w) \/ Respawn(w)
    \/ Reclaim(w) \/ Read(w) \/ EndBackoff(w)
    \/ HandleAck(w) \/ HandleError(w) \/ AckError(w)

WorkerStep(w) ==
    Progress(w) \/ ReclaimDue(w) \/ TaskEnds(w) \/ Signal(w) \/ WorkerEnds(w)

\* Every process is scheduled, a container that ended is started again
\* (docker-compose.yml, restart policies), timers run, and Redis comes back.
ShardFairness ==
    /\ \A w \in Workers : /\ WF_shard(Progress(w))
                          /\ WF_shard(ReclaimDue(w))
                          /\ WF_shard(task[w].stop /\ WorkerEnds(w))
    /\ WF_shard(Recover)
=============================================================================
