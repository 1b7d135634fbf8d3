----------------------------- MODULE TokenBucket -----------------------------
(***************************************************************************)
(* The token bucket of one tenant (delivery/rate_limit.py, take_token and  *)
(* TOKEN_BUCKET_LUA) and the handlers that draw on it.  A handler reads    *)
(* the time when it starts (worker.py, deliver_with_gates) and passes that *)
(* reading to the script, which stores it as updated_at.  Between the two  *)
(* are several awaits, so a script may run with a reading older than the   *)
(* updated_at it finds, and moves it back.                                 *)
(*                                                                         *)
(* One tick is 1/RATE second, so the bucket gains one token per tick and   *)
(* holds RATE of them.                                                     *)
(***************************************************************************)
EXTENDS Integers

CONSTANTS
    Callers,    \* handlers of this tenant's deliveries
    RATE,       \* tenant.rate_per_sec, which is also the burst
    KeyTTL,     \* EXPIRE of the bucket: 60 seconds
    MaxLag,     \* the longest between reading the time and running the script
    MaxTime,    \* bound: the clock
    None

ASSUME BucketAssumption ==
    /\ RATE \in Nat \ {0}
    /\ KeyTTL \in Nat /\ KeyTTL >= RATE + MaxLag
    /\ MaxLag \in Nat
    /\ MaxTime \in Nat
    /\ None \notin Nat

VARIABLES
    tokens, updated_at,   \* the Redis hash
    writtenAt,            \* when Redis last renewed the key's EXPIRE
    clock,
    call,                 \* the time a waiting handler has read, or None
    answer,               \* the last answer of take_token
    age,                  \* history: how old that answer's reading was
    overrun               \* history: grants beyond one per tick and beyond the
                          \* ticks that rewinds gave back

vars == <<tokens, updated_at, writtenAt, clock, call, answer, age, overrun>>

Less(n, k) == IF n > k THEN n - k ELSE 0

Init ==
    /\ tokens = RATE
    /\ updated_at = None
    /\ writtenAt = 0
    /\ clock = 0
    /\ call = [c \in Callers |-> None]
    /\ answer = "none"
    /\ age = 0
    /\ overrun = 0

\* deliver_with_gates: now = time.time().
Start(c) ==
    /\ call[c] = None
    /\ call' = [call EXCEPT ![c] = clock]
    /\ UNCHANGED <<tokens, updated_at, writtenAt, clock, answer, age, overrun>>

\* The key is absent before its first use and once it has expired.
Absent == updated_at = None \/ clock - writtenAt >= KeyTTL

\* Mutant of Refilled: the burst is not capped.
RefilledUncapped(now) ==
    IF Absent THEN RATE ELSE tokens + Less(now, updated_at)

\* Mutant of Refilled: the distance of the two times, not the time passed.
RefilledBothWays(now) ==
    LET found == tokens + Less(now, updated_at) + Less(updated_at, now)
    IN  IF Absent \/ found > RATE THEN RATE ELSE found

\* The tokens the script finds, refilled up to the burst.
Refilled(now) ==
    IF Absent \/ tokens + Less(now, updated_at) > RATE THEN RATE
    ELSE tokens + Less(now, updated_at)

\* How far a script run with this time moves updated_at back: the ticks it
\* gives back are counted again by the next script.
Rewind(now) == IF Absent THEN 0 ELSE Less(updated_at, now)

\* take_token: TOKEN_BUCKET_LUA for one token.
TakeToken(c) ==
    /\ call[c] # None
    /\ \/ /\ Refilled(call[c]) >= 1
          /\ tokens' = Refilled(call[c]) - 1
          /\ answer' = "granted"
          /\ overrun' = Less(overrun + 1, Rewind(call[c]))
       \/ /\ Refilled(call[c]) < 1
          /\ tokens' = Refilled(call[c])
          /\ answer' = "refused"
          /\ overrun' = Less(overrun, Rewind(call[c]))
    /\ age' = clock - call[c]
    /\ updated_at' = call[c]
    /\ writtenAt' = clock
    /\ call' = [call EXCEPT ![c] = None]
    /\ UNCHANGED clock

Tick ==
    /\ clock < MaxTime
    /\ \A c \in Callers : call[c] # None => clock < call[c] + MaxLag
    /\ clock' = clock + 1
    /\ overrun' = Less(overrun, 1)
    /\ UNCHANGED <<tokens, updated_at, writtenAt, call, answer, age>>

Next == (\E c \in Callers : Start(c) \/ TakeToken(c)) \/ Tick

Spec == Init /\ [][Next]_vars

-----------------------------------------------------------------------------
(***************************************************************************)
(* TypeOK: types; the bucket never holds more than the burst nor less than *)
(* nothing, and its times are not in the future.                           *)
(***************************************************************************)
TypeOK ==
    /\ tokens \in 0..RATE
    /\ clock \in Nat
    /\ updated_at \in Nat \cup {None}
    /\ updated_at # None => updated_at <= clock
    /\ writtenAt \in Nat /\ writtenAt <= clock
    /\ call \in [Callers -> Nat \cup {None}]
    /\ \A c \in Callers : call[c] # None => /\ call[c] <= clock
                                            /\ clock <= call[c] + MaxLag
    /\ answer \in {"none", "granted", "refused"}
    /\ age \in 0..MaxLag
    /\ overrun \in Nat

(***************************************************************************)
(* RateUpToRewinds: whatever the lag between reading the time and running  *)
(* the script, n ticks see at most RATE + MaxLag + n grants and the ticks  *)
(* by which scripts with an older reading moved updated_at back            *)
(* (TOKEN_BUCKET_LUA): scripts that run in the order of their readings     *)
(* keep the limit.                                                         *)
(***************************************************************************)
RateUpToRewinds == overrun <= RATE + MaxLag

\* The bucket as the contract sees it: the budget already spent.
Contract == INSTANCE RateContract WITH level <- RATE - Refilled(clock)

(***************************************************************************)
(* MeetsContract: the bucket is the leaky bucket of RateContract, in which *)
(* an answer may be off by the age of the reading it was computed from and *)
(* by no more: take_token grants only if the budget has room now, refuses  *)
(* only if it had none that long ago, and a late script gives back at most *)
(* that many ticks.                                                        *)
(***************************************************************************)
MeetsContract == Contract!Spec
=============================================================================
