---------------------------- MODULE AgentTrigger ----------------------------
(***************************************************************************)
(* The agent's trigger processes (agent/trigger.py): the subscription to   *)
(* the breaker's channel, which keeps nothing for a listener that is away, *)
(* and the budget, claimed in Redis keys whose TTLs do the accounting.     *)
(* The diagnosis itself is AgentRun; here it only takes time.              *)
(***************************************************************************)
EXTENDS Integers, Sequences

CONSTANTS
    Listeners,      \* trigger processes; two while a deployment overlaps
    Endpoints,
    HOUR, DAY,      \* their lengths in ticks
    PER_HOUR,       \* settings.agent_max_runs_per_endpoint_per_hour
    PER_DAY,        \* settings.agent_max_runs_per_day
    VerdictMax,     \* the longest from a claim to its verdict
    MaxTime,        \* bound: the clock
    MaxEvents,      \* bound: breaker events
    MaxFaults,      \* bound: Redis errors, stops and deaths of a listener
    None

\* per_hour_seconds: how long a claim on an endpoint lasts.
AtLeastOne(n) == IF n >= 1 THEN n ELSE 1
Window == AtLeastOne(HOUR \div AtLeastOne(PER_HOUR))

ASSUME BudgetAssumption ==
    /\ HOUR \in Nat \ {0} /\ DAY \in Nat \ {0}
    /\ PER_HOUR \in Nat /\ PER_DAY \in Nat
    /\ Window \in Nat \ {0}
    /\ VerdictMax \in Nat /\ VerdictMax < Window /\ VerdictMax <= DAY
    /\ MaxTime \in Nat /\ MaxEvents \in Nat /\ MaxFaults \in Nat
    /\ None \notin Endpoints \cup Nat

VARIABLES
    ran,        \* relay:agent:ran:<endpoint>: when the key expires
    daily,      \* relay:agent:daily:<day>: the value and when it expires
    lst,        \* the listeners
    inbox,      \* messages pushed to a listener and not handled yet
    clock,
    midnight,   \* when today ends; days are named by it
    spent,      \* events and faults so far
    \* History, read only by the properties
    granted,    \* claims allowed on each day's count
    freeAt,     \* when the claim behind an endpoint's last run expires
    burnt       \* endpoints whose claimant was cut off before its verdict

time == <<clock, midnight>>
vars == <<ran, daily, lst, inbox, clock, midnight, spent, granted, freeAt,
          burnt>>

Days  == 1 .. (MaxTime + DAY)
NoKey == [used |-> 0, expires |-> None]
Away  == [pc |-> "away", ep |-> None, at |-> 0, day |-> 0, used |-> 0]

Init ==
    /\ ran = [e \in Endpoints |-> 0]
    /\ daily = [d \in Days |-> NoKey]
    /\ lst = [l \in Listeners |-> Away]
    /\ inbox = [l \in Listeners |-> <<>>]
    /\ clock = 0
    /\ midnight = DAY
    /\ spent = [events |-> 0, faults |-> 0]
    /\ granted = [d \in Days |-> 0]
    /\ freeAt = [e \in Endpoints |-> 0]
    /\ burnt = {}

-----------------------------------------------------------------------------
\* Where a listener is between its claim and the verdict.
Claiming == {"count", "expire", "verdict"}
At(l, p) == lst[l].pc = p
Become(l, state) == lst' = [lst EXCEPT ![l] = state]
Listening == [pc |-> "listen", ep |-> None, at |-> 0, day |-> 0, used |-> 0]

\* What the breaker publishes: the two triggers, an opening and the fifth failure
\* in a row, which are handled alike, and the other transitions.
Kinds == {"trigger", "other"}

\* PUBLISH reaches whoever is subscribed at this moment, and nobody else.
Publish(e, kind) ==
    /\ spent.events < MaxEvents
    /\ spent' = [spent EXCEPT !.events = @ + 1]
    /\ inbox' = [l \in Listeners |->
                    IF At(l, "away") THEN inbox[l]
                    ELSE Append(inbox[l], [ep |-> e, kind |-> kind])]
    /\ UNCHANGED <<ran, daily, lst, time, granted, freeAt, burnt>>

\* Mutant of Subscribe: an error ends the loop.
SubscribeOnce(l) ==
    /\ At(l, "away")
    /\ spent.faults = 0
    /\ Become(l, Listening)
    /\ UNCHANGED <<ran, daily, inbox, time, spent, granted, freeAt, burnt>>

\* run_trigger: a fresh subscription, after the sleep of the last failure.
Subscribe(l) ==
    /\ At(l, "away")
    /\ Become(l, Listening)
    /\ UNCHANGED <<ran, daily, inbox, time, spent, granted, freeAt, burnt>>

\* get_message, and handle_breaker_event up to the budget.
Receive(l) ==
    LET message == Head(inbox[l])
    IN  /\ At(l, "listen")
        /\ inbox[l] # <<>>
        /\ inbox' = [inbox EXCEPT ![l] = Tail(@)]
        /\ IF message.kind = "other" THEN UNCHANGED lst
           ELSE Become(l, [pc |-> "claim", ep |-> message.ep, at |-> 0, day |-> 0,
                           used |-> 0])
        /\ UNCHANGED <<ran, daily, time, spent, granted, freeAt, burnt>>

\* Mutant of Claimed: SET without NX.
ClaimedNever(e) == FALSE
\* The endpoint's key is there.
Claimed(e) == ran[e] > clock

\* claim_budget: SET NX EX; a claim in force means the trigger is skipped. The one
\* who claims reads the date, which names the key of the next two calls.
ClaimEndpoint(l) ==
    LET e == lst[l].ep
    IN  /\ At(l, "claim")
        /\ \/ /\ Claimed(e)
              /\ Become(l, Listening)
              /\ UNCHANGED <<ran, burnt>>
           \/ /\ ~Claimed(e)
              /\ ran' = [ran EXCEPT ![e] = clock + Window]
              /\ burnt' = burnt \ {e}
              /\ Become(l, [pc |-> "count", ep |-> e, at |-> clock, day |-> midnight,
                            used |-> 0])
        /\ UNCHANGED <<daily, inbox, time, spent, granted, freeAt>>

\* The day's key after INCR; one that had expired begins anew, without a TTL.
Incremented(d) ==
    IF daily[d].expires # None /\ daily[d].expires <= clock
    THEN [used |-> 1, expires |-> None]
    ELSE [used |-> daily[d].used + 1, expires |-> daily[d].expires]

\* claim_budget: INCR, on the key of the date that was read.
CountDay(l) ==
    LET d    == lst[l].day
        used == Incremented(d).used
    IN  /\ At(l, "count")
        /\ daily' = [daily EXCEPT ![d] = Incremented(d)]
        /\ Become(l, [pc |-> IF used = 1 THEN "expire" ELSE "verdict",
                      ep |-> lst[l].ep, at |-> lst[l].at, day |-> d, used |-> used])
        /\ granted' = [granted EXCEPT ![d] = IF used <= PER_DAY THEN @ + 1 ELSE @]
        /\ UNCHANGED <<ran, inbox, time, spent, freeAt, burnt>>

\* Mutant of DailyTTL: the counter is given the endpoint key's lifetime.
DailyTTLOfAnHour == Window
\* EXPIRE daily 86_400 * 2.
DailyTTL == 2 * DAY

\* claim_budget: the first of the day sets the TTL.
ExpireDay(l) ==
    LET d == lst[l].day
    IN  /\ At(l, "expire")
        /\ daily' = [daily EXCEPT ![d] = [used |-> daily[d].used,
                                         expires |-> clock + DailyTTL]]
        /\ Become(l, [lst[l] EXCEPT !.pc = "verdict"])
        /\ UNCHANGED <<ran, inbox, time, spent, granted, freeAt, burnt>>

\* Mutant of GiveBack: the claim is kept.
GiveBackNothing(l) ==
    /\ At(l, "verdict") /\ lst[l].used > PER_DAY
    /\ Become(l, Listening)
    /\ UNCHANGED <<ran, daily, inbox, time, spent, granted, freeAt, burnt>>

\* claim_budget: the day is used up; DEL of the endpoint's key.
GiveBack(l) ==
    /\ At(l, "verdict") /\ lst[l].used > PER_DAY
    /\ ran' = [ran EXCEPT ![lst[l].ep] = 0]
    /\ Become(l, Listening)
    /\ UNCHANGED <<daily, inbox, time, spent, granted, freeAt, burnt>>

\* claim_budget allows it: diagnose_and_record starts.
BeginRun(l) ==
    /\ At(l, "verdict") /\ lst[l].used <= PER_DAY
    /\ Become(l, [lst[l] EXCEPT !.pc = "run"])
    /\ freeAt' = [freeAt EXCEPT ![lst[l].ep] = lst[l].at + Window]
    /\ UNCHANGED <<ran, daily, inbox, time, spent, granted, burnt>>

\* diagnose_and_record never raises: a result or an agent_error, the loop goes on.
EndRun(l) ==
    /\ At(l, "run")
    /\ Become(l, Listening)
    /\ UNCHANGED <<ran, daily, inbox, time, spent, granted, freeAt, burnt>>

\* Mutant of Interrupted: the subscription outlives the error.
InterruptedKeepsInbox(l) ==
    /\ ~At(l, "away")
    /\ spent.faults < MaxFaults
    /\ spent' = [spent EXCEPT !.faults = @ + 1]
    /\ Become(l, Away)
    /\ UNCHANGED <<ran, daily, inbox, time, granted, freeAt, burnt>>

(***************************************************************************)
(* A Redis error, SIGTERM or the death of the process: the subscription is *)
(* closed and what it had been sent is gone, the message in hand included. *)
(* A claim that was taken stays.                                           *)
(***************************************************************************)
Interrupted(l) ==
    /\ ~At(l, "away")
    /\ spent.faults < MaxFaults
    /\ spent' = [spent EXCEPT !.faults = @ + 1]
    /\ burnt' = IF lst[l].pc \in Claiming
                THEN burnt \cup {lst[l].ep} ELSE burnt
    /\ Become(l, Away)
    /\ inbox' = [inbox EXCEPT ![l] = <<>>]
    /\ UNCHANGED <<ran, daily, time, granted, freeAt>>

\* A tick; at midnight the next day's key begins to count.
Tick ==
    /\ clock < MaxTime
    /\ \A l \in Listeners : lst[l].pc \in Claiming => clock < lst[l].at + VerdictMax
    /\ clock' = clock + 1
    /\ midnight' = IF clock + 1 = midnight THEN midnight + DAY ELSE midnight
    /\ UNCHANGED <<ran, daily, lst, inbox, spent, granted, freeAt, burnt>>

\* A step of the trigger process.
Proceed(l) ==
    \/ Subscribe(l)
    \/ Receive(l)
    \/ ClaimEndpoint(l)
    \/ CountDay(l)
    \/ ExpireDay(l)
    \/ GiveBack(l)
    \/ BeginRun(l)
    \/ EndRun(l)

Next ==
    \/ \E e \in Endpoints, kind \in Kinds : Publish(e, kind)
    \/ \E l \in Listeners : Proceed(l)
    \/ \E l \in Listeners : Interrupted(l)
    \/ Tick

Spec == Init /\ [][Next]_vars

\* The process is restarted and keeps running, and a run ends (AgentRun, RunEnds).
FairSpec == Spec /\ \A l \in Listeners : WF_vars(Proceed(l))

-----------------------------------------------------------------------------
Message == [ep : Endpoints, kind : Kinds]
Handling == {"claim", "run"} \cup Claiming

ListenerState ==
    {v \in [pc : {"away", "listen"} \cup Handling, ep : Endpoints \cup {None},
            at : Nat, day : Nat, used : Nat] :
        /\ v.pc \in Handling <=> v.ep \in Endpoints
        /\ v.pc \in Claiming => v.day \in Days}

(***************************************************************************)
(* TypeOK: types; a listener knows the endpoint exactly while it handles a *)
(* message, and one that is away has no messages.                          *)
(***************************************************************************)
TypeOK ==
    /\ ran \in [Endpoints -> Nat]
    /\ daily \in [Days -> [used : Nat, expires : Nat \cup {None}]]
    /\ lst \in [Listeners -> ListenerState]
    /\ inbox \in [Listeners -> Seq(Message)]
    /\ clock \in Nat /\ midnight \in Days
    /\ spent \in [events : Nat, faults : Nat]
    /\ granted \in [Days -> Nat]
    /\ freeAt \in [Endpoints -> Nat]
    /\ burnt \subseteq Endpoints
    /\ \A l \in Listeners : At(l, "away") => inbox[l] = <<>>

(***************************************************************************)
(* DailyCap: no more claims are allowed on a day's count than the budget  *)
(* has (trigger.py, "ten runs per day globally"), whichever listener asks, *)
(* wherever one is cut off, and when midnight falls between reading the    *)
(* date and counting: no key expires while a claim may still count in it.  *)
(***************************************************************************)
DailyCap == \A d \in Days : granted[d] <= PER_DAY

(***************************************************************************)
(* SpacedRuns: a run starts only on a claim made after the claim of the    *)
(* endpoint's last run had expired (trigger.py, "at most one run per       *)
(* endpoint per hour"): neither a second listener that got the same        *)
(* message, nor the other trigger of the same failure, nor a claim that    *)
(* was given back lets a run through early.                                *)
(***************************************************************************)
SpacedRuns ==
    [][\A l \in Listeners : BeginRun(l) => lst[l].at >= freeAt[lst[l].ep]]_vars

(***************************************************************************)
(* GivenBack: a claim in force belongs to a run, to a listener that still  *)
(* waits for its verdict, or to one that was cut off doing so: a refusal   *)
(* for the day does not block the endpoint (claim_budget, "Give the        *)
(* per-endpoint claim back so a legitimate run tomorrow isn't blocked").   *)
(***************************************************************************)
GivenBack ==
    \A e \in Endpoints :
        Claimed(e) => \/ ran[e] = freeAt[e]
                      \/ \E l \in Listeners : lst[l].pc \in Claiming /\ lst[l].ep = e
                      \/ e \in burnt

(***************************************************************************)
(* AlwaysDrains: a listener always comes back to an open subscription with *)
(* every message handled, after Redis errors, restarts and failed runs.    *)
(***************************************************************************)
AlwaysDrains ==
    \A l \in Listeners : []<>(At(l, "listen") /\ inbox[l] = <<>>)
=============================================================================
