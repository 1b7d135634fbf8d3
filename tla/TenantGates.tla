----------------------------- MODULE TenantGates -----------------------------
(***************************************************************************)
(* The two gates of one tenant as a handler passes them (worker.py,        *)
(* check_gates and deliver_with_gates): a token of the bucket, then a slot *)
(* of the concurrency cap (delivery/rate_limit.py, acquire_slot and        *)
(* release_slot), a ZSET of slots scored by their expiry and swept by      *)
(* every acquisition.  Both scripts get the time the handler read when it  *)
(* started.                                                                *)
(***************************************************************************)
EXTENDS TokenBucket, FiniteSets

CONSTANTS
    Tokens,             \* uuid4().hex of a slot
    MaxInflight,        \* tenant.max_inflight
    SLOT_TTL_SECONDS,
    HandlerMax,         \* the longest a handler takes
    MaxFaults           \* bound: handlers that die

ASSUME SlotAssumption ==
    /\ IsFiniteSet(Tokens)
    /\ MaxInflight \in Nat \ {0}
    /\ SLOT_TTL_SECONDS \in Nat
    /\ HandlerMax \in Nat /\ MaxLag <= HandlerMax
    /\ MaxFaults \in Nat
    /\ None \notin Tokens
\* "Must exceed the delivery timeout."
ASSUME TTLAssumption == HandlerMax < SLOT_TTL_SECONDS

VARIABLES
    slots,      \* the ZSET: records of a token and its expiry
    gate,       \* handlers past the bucket
    faults,
    leaked      \* history: the slots of handlers that died holding one

gates == <<tokens, updated_at, writtenAt, clock, call, answer, age, overrun,
           slots, gate, faults, leaked>>

Idle == [pc |-> "idle", now |-> 0, token |-> None]

GatesInit ==
    /\ Init
    /\ slots = {}
    /\ gate = [c \in Callers |-> Idle]
    /\ faults = 0
    /\ leaked = {}

At(c, p) == gate[c].pc = p
Holding(c) == gate[c].token # None

\* deliver_with_gates: now = time.time().
Enter(c) ==
    /\ At(c, "idle")
    /\ Start(c)
    /\ UNCHANGED <<slots, gate, faults, leaked>>

\* check_gates: take_token; without one the delivery is deferred.
PassRate(c) ==
    /\ TakeToken(c)
    /\ gate' = [gate EXCEPT ![c] = IF answer' = "granted"
                                   THEN [pc |-> "acquire", now |-> call[c], token |-> None]
                                   ELSE Idle]
    /\ UNCHANGED <<slots, faults, leaked>>

\* Mutant of Swept: nothing ages out.
SweptNothing(now) == slots

\* Mutant of Swept: the score is taken for the time the slot was acquired.
SweptLive(now) == {s \in slots : s.expiry > now + SLOT_TTL_SECONDS}

\* ZREMRANGEBYSCORE key -inf now.
Swept(now) == {s \in slots : s.expiry > now}

\* Mutant of HasRoom: one slot too many.
HasRoomForOneMore(now) == Cardinality(Swept(now)) <= MaxInflight

HasRoom(now) == Cardinality(Swept(now)) < MaxInflight

\* ACQUIRE_SLOT_LUA with a fresh token; at the cap the delivery is deferred.
AcquireSlot(c, token) ==
    LET now == gate[c].now
    IN  /\ At(c, "acquire")
        /\ \A s \in slots : s.token # token
        /\ \A b \in Callers : gate[b].token # token
        /\ \/ /\ HasRoom(now)
              /\ slots' = Swept(now) \cup {[token |-> token,
                                            expiry |-> now + SLOT_TTL_SECONDS]}
              /\ gate' = [gate EXCEPT ![c] = [pc |-> "send", now |-> now,
                                              token |-> token]]
           \/ /\ ~HasRoom(now)
              /\ slots' = Swept(now)
              /\ gate' = [gate EXCEPT ![c] = Idle]
        /\ UNCHANGED <<vars, faults, leaked>>

\* release_slot in the finally block, whether process_delivery returns or raises.
ReleaseSlot(c) ==
    /\ At(c, "send")
    /\ slots' = {s \in slots : s.token # gate[c].token}
    /\ gate' = [gate EXCEPT ![c] = Idle]
    /\ UNCHANGED <<vars, faults, leaked>>

\* The worker dies: a slot it holds stays behind.
Crash(c) ==
    /\ ~At(c, "idle")
    /\ faults < MaxFaults
    /\ faults' = faults + 1
    /\ leaked' = leaked \cup {s \in slots : s.token = gate[c].token}
    /\ gate' = [gate EXCEPT ![c] = Idle]
    /\ UNCHANGED <<vars, slots>>

GatesTick ==
    /\ \A c \in Callers : ~At(c, "idle") => clock < gate[c].now + HandlerMax
    /\ Tick
    /\ UNCHANGED <<slots, gate, faults, leaked>>

GatesNext ==
    \/ \E c \in Callers :
          \/ Enter(c)
          \/ PassRate(c)
          \/ \E token \in Tokens : AcquireSlot(c, token)
          \/ ReleaseSlot(c)
          \/ Crash(c)
    \/ GatesTick

GatesSpec == GatesInit /\ [][GatesNext]_gates

-----------------------------------------------------------------------------
Slot == [token : Tokens, expiry : Nat]

(***************************************************************************)
(* GatesTypeOK: types; a handler holds a token exactly while it sends, and *)
(* that slot is in the ZSET and has not expired.                           *)
(***************************************************************************)
GatesTypeOK ==
    /\ slots \subseteq Slot
    /\ gate \in [Callers -> [pc : {"idle", "acquire", "send"}, now : Nat,
                             token : Tokens \cup {None}]]
    /\ faults \in Nat
    /\ leaked \subseteq Slot
    /\ \A c \in Callers : At(c, "send") <=> Holding(c)
    /\ \A c \in Callers : Holding(c) =>
          \E s \in slots : s.token = gate[c].token /\ s.expiry > clock

(***************************************************************************)
(* CapRespected: a tenant never has more than max_inflight deliveries out  *)
(* at once (rate_limit.py: otherwise "N workers each see room and          *)
(* collectively blow past the cap").                                       *)
(***************************************************************************)
CapRespected == Cardinality({c \in Callers : At(c, "send")}) <= MaxInflight

(***************************************************************************)
(* RefusedAtCap: a delivery is turned away only if max_inflight slots      *)
(* belong to handlers at work, or to handlers that died less than the TTL  *)
(* before the refused one started: a dead worker's slot ages out instead   *)
(* of shrinking the cap for ever (rate_limit.py, "a stale ZSET member      *)
(* ages out").                                                             *)
(***************************************************************************)
RefusedAtCap ==
    [][\A c \in Callers :
          (At(c, "acquire") /\ gate'[c].pc = "idle" /\ faults' = faults) =>
              Cardinality({b \in Callers : At(b, "send")})
                + Cardinality({s \in leaked : s.expiry > gate[c].now})
                    >= MaxInflight]_gates
=============================================================================
