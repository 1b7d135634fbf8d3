--------------------------- MODULE CircuitBreaker ---------------------------
(***************************************************************************)
(* The circuit breaker of one endpoint (delivery/circuit_breaker.py) and   *)
(* the handlers that go through it (delivery/worker.py, check_gates and    *)
(* deliver_with_gates).  The two Lua scripts are atomic; everything a      *)
(* handler does between them is not.  A handler reads the time once, when  *)
(* it starts, and passes that reading to allow_request and to              *)
(* should_auto_disable; record_outcome gets a fresh one.                   *)
(***************************************************************************)
EXTENDS Integers, Sequences, FiniteSets

CONSTANTS
    Callers,                            \* handlers of this endpoint's entries
    CONSECUTIVE_FAILURE_THRESHOLD,
    CONSECUTIVE_FAILURE_TRIGGER,
    WINDOW_SECONDS,
    WINDOW_MIN_ATTEMPTS,
    HALF_OPEN_PROBE_INTERVAL_SECONDS,
    AUTO_DISABLE_AFTER_SECONDS,
    HandlerMax,     \* the longest a handler takes from start to outcome
    MaxTime,        \* bound: the clock
    MaxWindow,      \* bound: outcomes kept in the sliding window
    MaxFaults,      \* bound: handlers that crash or raise
    MaxResets,      \* bound: forced resets (DLQ replay, POST breaker/reset)
    MaxPatches,     \* bound: endpoint status changes by the API
    None

ASSUME ThresholdAssumption ==
    /\ CONSECUTIVE_FAILURE_THRESHOLD \in Nat \ {0}
    /\ CONSECUTIVE_FAILURE_TRIGGER \in 1..(CONSECUTIVE_FAILURE_THRESHOLD - 1)
    /\ WINDOW_MIN_ATTEMPTS \in Nat \ {0}
ASSUME TimeAssumption ==
    /\ WINDOW_SECONDS \in Nat
    /\ HALF_OPEN_PROBE_INTERVAL_SECONDS \in Nat
    /\ AUTO_DISABLE_AFTER_SECONDS \in Nat
    /\ HandlerMax \in Nat
    /\ None \notin Nat
\* A POST times out after 10 seconds, a probe is due after 600.
ASSUME ProbeAssumption == HandlerMax < HALF_OPEN_PROBE_INTERVAL_SECONDS
ASSUME LimitAssumption ==
    /\ MaxTime \in Nat
    /\ MaxWindow \in Nat
    /\ MaxFaults \in Nat
    /\ MaxResets \in Nat
    /\ MaxPatches \in Nat

VARIABLES
    \* Redis: the breaker hash, and the ZSETs attempts and failures as one
    \* sequence of outcomes, oldest first
    state, consecutive, opened_at, last_probe_at, window,
    active,       \* Postgres: endpoints.status = 'active'
    clock,
    call,         \* the handlers
    spent,
    \* History, read only by the properties
    downSince,    \* when the breaker last left 'closed'
    seen,         \* outcomes recorded since the breaker was last closed anew
    \* ... the agent's triggers of the present streak of failures: the handlers
    \* that are to publish one, how many were published and how many lost
    owing, sent, lost

hash    == <<state, consecutive, opened_at, last_probe_at>>
history == <<downSince, seen, owing, sent, lost>>
vars    == <<state, consecutive, opened_at, last_probe_at, window, active,
             clock, call, spent, downSince, seen, owing, sent, lost>>

Idle == [pc |-> "idle", now |-> 0, probe |-> FALSE, ok |-> FALSE]

Init ==
    /\ state = "closed"
    /\ consecutive = 0
    /\ opened_at = None
    /\ last_probe_at = None
    /\ window = <<>>
    /\ active = TRUE
    /\ clock = 0
    /\ call = [c \in Callers |-> Idle]
    /\ spent = [faults |-> 0, resets |-> 0, patches |-> 0]
    /\ downSince = None
    /\ seen = 0
    /\ owing = {} /\ sent = 0 /\ lost = 0

At(c, p) == call[c].pc = p
Goto(c, p) == call' = [call EXCEPT ![c].pc = p]
Finish(c) == call' = [call EXCEPT ![c] = Idle]

-----------------------------------------------------------------------------
\* deliver_with_gates: the handler starts and reads the time.
Start(c) ==
    /\ At(c, "idle")
    /\ active
    /\ call' = [call EXCEPT ![c] = [Idle EXCEPT !.pc = "allow", !.now = clock]]
    /\ UNCHANGED <<hash, window, active, clock, spent, history>>

ProbeDue(now) ==
    now - (IF last_probe_at = None THEN 0 ELSE last_probe_at)
        >= HALF_OPEN_PROBE_INTERVAL_SECONDS

\* Mutant of AllowRequest: half_open lets everybody through.
AllowUnlessOpen(c) ==
    /\ At(c, "allow")
    /\ \/ /\ state # "open"
          /\ Goto(c, "gates")
          /\ UNCHANGED hash
       \/ /\ state = "open" /\ ProbeDue(call[c].now)
          /\ state' = "half_open"
          /\ last_probe_at' = call[c].now
          /\ call' = [call EXCEPT ![c].pc = "gates", ![c].probe = TRUE]
          /\ UNCHANGED <<consecutive, opened_at>>
       \/ /\ state = "open" /\ ~ProbeDue(call[c].now)
          /\ Goto(c, "check")
          /\ UNCHANGED hash
    /\ UNCHANGED <<window, active, clock, spent, history>>

\* ALLOW_REQUEST_LUA: allow, probe or deny.
AllowRequest(c) ==
    /\ At(c, "allow")
    /\ \/ /\ state = "closed"
          /\ Goto(c, "gates")
          /\ UNCHANGED hash
       \/ /\ state = "open" /\ ProbeDue(call[c].now)
          /\ state' = "half_open"
          /\ last_probe_at' = call[c].now
          /\ call' = [call EXCEPT ![c].pc = "gates", ![c].probe = TRUE]
          /\ UNCHANGED <<consecutive, opened_at>>
       \/ /\ state = "half_open" \/ (state = "open" /\ ~ProbeDue(call[c].now))
          /\ Goto(c, "check")
          /\ UNCHANGED hash
    /\ UNCHANGED <<window, active, clock, spent, history>>

\* Mutant of ShouldAutoDisable: compares with the probe interval.
DisableAfterProbeInterval(c) ==
    /\ At(c, "check")
    /\ IF /\ state # "closed" /\ opened_at # None
          /\ call[c].now - opened_at >= HALF_OPEN_PROBE_INTERVAL_SECONDS
       THEN Goto(c, "disable") ELSE Finish(c)
    /\ UNCHANGED <<hash, window, active, clock, spent, history>>

\* should_auto_disable, on the denied branch: reads the hash a second time.
ShouldAutoDisable(c) ==
    /\ At(c, "check")
    /\ IF /\ state # "closed" /\ opened_at # None
          /\ call[c].now - opened_at >= AUTO_DISABLE_AFTER_SECONDS
       THEN Goto(c, "disable") ELSE Finish(c)
    /\ UNCHANGED <<hash, window, active, clock, spent, history>>

\* check_gates: endpoint.status = 'disabled', committed; then the deferral.
Disable(c) ==
    /\ At(c, "disable")
    /\ active' = FALSE
    /\ Finish(c)
    /\ UNCHANGED <<hash, window, clock, spent, history>>

\* take_token or acquire_slot refuses: the delivery is deferred, and nothing
\* is told to the breaker, also if this handler was its probe.
GateDefers(c) ==
    /\ At(c, "gates")
    /\ Finish(c)
    /\ UNCHANGED <<hash, window, active, clock, spent, history>>

GatePasses(c) ==
    /\ At(c, "gates")
    /\ Goto(c, "send")
    /\ UNCHANGED <<hash, window, active, clock, spent, history>>

-----------------------------------------------------------------------------
\* Outcomes that have left the window: the oldest ones.
Expired == Cardinality({i \in DOMAIN window : window[i].at <= clock - WINDOW_SECONDS})

\* The sliding window after ZREMRANGEBYSCORE and ZADD.
Recorded(ok) ==
    Append(SubSeq(window, Expired + 1, Len(window)), [at |-> clock, ok |-> ok])

\* process_delivery.  MaxWindow bounds the outcomes within one window.
Send(c, ok) ==
    /\ At(c, "send")
    /\ Len(Recorded(ok)) <= MaxWindow
    /\ call' = [call EXCEPT ![c].pc = "record", ![c].ok = ok]
    /\ UNCHANGED <<hash, window, active, clock, spent, history>>

\* failures / attempts > FAILURE_RATE_THRESHOLD, which is a half.
RateTripped(w) ==
    /\ Len(w) >= WINDOW_MIN_ATTEMPTS
    /\ 2 * Cardinality({i \in DOMAIN w : ~w[i].ok}) > Len(w)

NewState(ok, count) ==
    IF ok THEN "closed"
    ELSE IF state = "half_open" THEN "open"
    ELSE IF state = "closed" /\ (\/ count >= CONSECUTIVE_FAILURE_THRESHOLD
                                 \/ RateTripped(Recorded(ok))) THEN "open"
    ELSE state

\* Mutant of NewWindow: recovering leaves the history in place.
KeepWindow(ok, new) == Recorded(ok)

\* "clear history so old failures can't retrip it immediately"
NewWindow(ok, new) ==
    IF new = "closed" /\ state # "closed" THEN <<>> ELSE Recorded(ok)

\* Mutant of Triggers: every failure from the threshold on triggers.
TriggersAgain(ok, count, new) ==
    ~ok /\ count >= CONSECUTIVE_FAILURE_TRIGGER /\ new = "closed"

\* record_outcome is to publish "consecutive_failures" for the agent.
Triggers(ok, count, new) ==
    ~ok /\ count = CONSECUTIVE_FAILURE_TRIGGER /\ new = "closed"

\* Mutant of RecordOutcome: the times of the last opening are not deleted.
RecordKeepsTimes(c) ==
    LET ok == call[c].ok
        count == IF ok THEN 0 ELSE consecutive + 1
        new == NewState(ok, count)
    IN  /\ At(c, "record")
        /\ state' = new
        /\ consecutive' = count
        /\ window' = NewWindow(ok, new)
        /\ opened_at' = IF new = "open" /\ state # new THEN clock ELSE opened_at
        /\ last_probe_at' = IF new = "open" /\ state # new THEN clock
                                                          ELSE last_probe_at
        /\ Finish(c)
        /\ UNCHANGED <<active, clock, spent, history>>

\* Opening takes at least this many outcomes; seen counts no further.
Enough == IF CONSECUTIVE_FAILURE_THRESHOLD < WINDOW_MIN_ATTEMPTS
          THEN CONSECUTIVE_FAILURE_THRESHOLD ELSE WINDOW_MIN_ATTEMPTS
OneMore == IF seen < Enough THEN seen + 1 ELSE seen

(***************************************************************************)
(* record_outcome: RECORD_OUTCOME_LUA.  The caller that saw the counter    *)
(* reach the trigger in 'closed' goes on to publish it.                    *)
(***************************************************************************)
RecordOutcome(c) ==
    LET ok == call[c].ok
        count == IF ok THEN 0 ELSE consecutive + 1
        new == NewState(ok, count)
    IN  /\ At(c, "record")
        /\ state' = new
        /\ consecutive' = count
        /\ window' = NewWindow(ok, new)
        /\ \/ /\ ok
              /\ owing' = {} /\ sent' = 0 /\ lost' = 0
              /\ Finish(c)
           \/ /\ ~ok /\ Triggers(ok, count, new)
              /\ owing' = owing \cup {c}
              /\ Goto(c, "publish")
              /\ UNCHANGED <<sent, lost>>
           \/ /\ ~ok /\ ~Triggers(ok, count, new)
              /\ Finish(c)
              /\ UNCHANGED <<owing, sent, lost>>
        /\ \/ /\ new = state
              /\ seen' = OneMore
              /\ UNCHANGED <<opened_at, last_probe_at, downSince>>
           \/ /\ new # state /\ new = "open"
              /\ opened_at' = clock
              /\ last_probe_at' = clock
              /\ seen' = OneMore
              /\ downSince' = IF state = "closed" THEN clock ELSE downSince
           \/ /\ new # state /\ new = "closed"
              /\ opened_at' = None
              /\ last_probe_at' = None
              /\ seen' = 0
              /\ downSince' = None
        /\ UNCHANGED <<active, clock, spent>>

\* record_outcome, after the script: PUBLISH of the trigger, whatever became of
\* the breaker meanwhile.
Publish(c) ==
    /\ At(c, "publish")
    /\ owing' = owing \ {c}
    /\ sent' = IF c \in owing THEN sent + 1 ELSE sent
    /\ Finish(c)
    /\ UNCHANGED <<hash, window, active, clock, spent, downSince, seen, lost>>

-----------------------------------------------------------------------------
\* reset: DEL of the three keys.
Reset ==
    /\ spent.resets < MaxResets
    /\ spent' = [spent EXCEPT !.resets = @ + 1]
    /\ state' = "closed"
    /\ consecutive' = 0
    /\ opened_at' = None
    /\ last_probe_at' = None
    /\ window' = <<>>
    /\ downSince' = None
    /\ seen' = 0
    /\ owing' = {} /\ sent' = 0 /\ lost' = 0
    /\ UNCHANGED <<active, clock, call>>

\* patch_endpoint: the status changes, the breaker does not.
PatchEndpoint ==
    /\ spent.patches < MaxPatches
    /\ spent' = [spent EXCEPT !.patches = @ + 1]
    /\ active' = ~active
    /\ UNCHANGED <<hash, window, clock, call, history>>

\* The handler's process dies or one of its calls raises; a trigger it was to
\* publish is lost, for nobody else sees the counter cross.
Crash(c) ==
    /\ ~At(c, "idle")
    /\ spent.faults < MaxFaults
    /\ spent' = [spent EXCEPT !.faults = @ + 1]
    /\ owing' = owing \ {c}
    /\ lost' = IF c \in owing THEN lost + 1 ELSE lost
    /\ Finish(c)
    /\ UNCHANGED <<hash, window, active, clock, downSince, seen, sent>>

\* Time passes, but no handler lives longer than HandlerMax.
Tick ==
    /\ clock < MaxTime
    /\ \A c \in Callers : ~At(c, "idle") => clock < call[c].now + HandlerMax
    /\ clock' = clock + 1
    /\ UNCHANGED <<hash, window, active, call, spent, history>>

Next ==
    \/ \E c \in Callers :
          \/ Start(c)
          \/ AllowRequest(c)
          \/ ShouldAutoDisable(c)
          \/ Disable(c)
          \/ GateDefers(c)
          \/ GatePasses(c)
          \/ \E ok \in BOOLEAN : Send(c, ok)
          \/ RecordOutcome(c)
          \/ Publish(c)
          \/ Crash(c)
    \/ Reset
    \/ PatchEndpoint
    \/ Tick

Spec == Init /\ [][Next]_vars

-----------------------------------------------------------------------------
Call ==
    [pc : {"idle", "allow", "check", "disable", "gates", "send", "record", "publish"},
     now : Nat, probe : BOOLEAN, ok : BOOLEAN]

TypeHash ==
    /\ state \in {"closed", "open", "half_open"}
    /\ clock \in Nat
    /\ IF state = "closed"
       THEN opened_at = None /\ last_probe_at = None
       ELSE /\ opened_at \in Nat /\ last_probe_at \in Nat
            /\ opened_at <= last_probe_at /\ last_probe_at <= clock

TypeCalls ==
    /\ call \in [Callers -> Call]
    /\ \A c \in Callers : ~At(c, "idle") => /\ call[c].now <= clock
                                            /\ clock <= call[c].now + HandlerMax

(***************************************************************************)
(* TypeOK: types; the breaker hash has its two times exactly when it is    *)
(* not closed, in order and not in the future.                             *)
(***************************************************************************)
TypeOK ==
    /\ TypeHash
    /\ TypeCalls
    /\ consecutive \in Nat
    /\ window \in Seq([at : Nat, ok : BOOLEAN])
    /\ active \in BOOLEAN
    /\ spent \in [faults : Nat, resets : Nat, patches : Nat]
    /\ downSince \in Nat \cup {None}
    /\ seen \in Nat
    /\ owing \subseteq Callers
    /\ sent \in Nat /\ lost \in Nat

\* The handler has been let through and its outcome is not recorded yet.
InFlight(c) == call[c].pc \in {"gates", "send", "record"}

(***************************************************************************)
(* ProbeAlone: while the breaker is half_open nobody but its probe is past *)
(* the breaker (circuit_breaker.py, "let exactly this caller through"), so *)
(* the outcome that decides between closed and open is the probe's, never  *)
(* that of a straggler let through before the breaker opened.              *)
(***************************************************************************)
ProbeAlone ==
    state = "half_open" =>
        \A b, c \in Callers :
            InFlight(b) /\ InFlight(c) => b = c /\ call[c].probe

(***************************************************************************)
(* NoInstantRetrip: the breaker opens only on enough outcomes recorded     *)
(* since it was last closed (circuit_breaker.py, "clear history so old     *)
(* failures can't retrip it immediately").                                 *)
(***************************************************************************)
NoInstantRetrip ==
    [][state = "closed" /\ state' # "closed" => seen' = Enough]_vars

(***************************************************************************)
(* TriggerOnce: while the breaker is closed, a streak of failures shorter  *)
(* than the trigger has none, and a longer one has exactly one: a handler  *)
(* is about to publish it, or it was published, or it was lost because     *)
(* that handler failed between the script and PUBLISH (record_outcome,     *)
(* "exactly one attempt observes the crossing - no double-publish"),       *)
(* however handlers, crashes and resets interleave.                        *)
(***************************************************************************)
TriggerOnce ==
    state = "closed" =>
        /\ consecutive < CONSECUTIVE_FAILURE_THRESHOLD
        /\ \/ /\ consecutive < CONSECUTIVE_FAILURE_TRIGGER
              /\ owing = {} /\ sent + lost = 0
           \/ /\ consecutive >= CONSECUTIVE_FAILURE_TRIGGER
              /\ owing = {} /\ sent + lost = 1
           \/ /\ consecutive >= CONSECUTIVE_FAILURE_TRIGGER
              /\ \E c \in Callers : owing = {c} /\ At(c, "publish")
              /\ sent + lost = 0

(***************************************************************************)
(* DisableDecision: a handler decides to disable the endpoint only if the  *)
(* breaker has not been closed for the whole limit, whatever opened and    *)
(* closed since the handler was denied (should_auto_disable).              *)
(***************************************************************************)
DisableDecision ==
    [][\A c \in Callers :
          call[c].pc = "check" /\ call'[c].pc = "disable" =>
              /\ downSince # None
              /\ call[c].now - downSince >= AUTO_DISABLE_AFTER_SECONDS]_vars

(***************************************************************************)
(* HalfOpenHasProbe: ALLOW_REQUEST_LUA denies everybody in half_open since *)
(* "a probe is already in flight, everyone else waits".                    *)
(***************************************************************************)
HalfOpenHasProbe ==
    state = "half_open" => \E c \in Callers : InFlight(c) /\ call[c].probe
=============================================================================
