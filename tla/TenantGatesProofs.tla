-------------------------- MODULE TenantGatesProofs --------------------------
(***************************************************************************)
(* What the two gates of a tenant guarantee, for every rate, cap, number   *)
(* of handlers, lag of their readings of the time and time-out: the bucket *)
(* implements RateContract and exceeds its rate by rewinds only, handlers  *)
(* that also pass the concurrency cap use it as TokenBucket says, and the  *)
(* cap holds and refuses only when it is used up.                          *)
(***************************************************************************)
EXTENDS TenantGates, FiniteSetTheorems, TLAPS

\* The tokens available now.
Available == Refilled(clock)

\* The part of the burst that is spent and not refilled by now; negative once
\* the bucket has been full for a while.
Spent == RATE - tokens - (clock - updated_at)

(***************************************************************************)
(* The inductive invariant: the stored time is no later than the write     *)
(* that stored it, and the grants counted are covered by what is spent of  *)
(* the burst, read at most MaxLag ago.                                     *)
(***************************************************************************)
BucketInv ==
    /\ TypeOK
    /\ updated_at = None => overrun = 0
    /\ updated_at # None => /\ updated_at <= writtenAt
                            /\ overrun = 0 \/ overrun <= Spent + MaxLag

(***************************************************************************)
(* Whatever the time, the script finds between no token and the burst.     *)
(***************************************************************************)
LEMMA RefilledType ==
    ASSUME TypeOK, NEW now \in Nat
    PROVE  Refilled(now) \in 0..RATE
  BY BucketAssumption DEF TypeOK, Refilled, Absent, Less

\* A step of the bucket keeps its types.
LEMMA BucketTypes ==
    ASSUME TypeOK, [Next]_vars
    PROVE  TypeOK'
<1> USE BucketAssumption
<1>1. ASSUME NEW c \in Callers, Start(c) PROVE TypeOK'
  BY <1>1 DEF TypeOK, Start
<1>2. ASSUME NEW c \in Callers, TakeToken(c) PROVE TypeOK'
  <2>1. /\ call[c] \in Nat /\ clock \in Nat /\ call[c] <= clock
        /\ clock <= call[c] + MaxLag
    BY <1>2 DEF TypeOK, TakeToken
  <2>2. Refilled(call[c]) \in 0..RATE /\ Rewind(call[c]) \in Nat
    BY <2>1, RefilledType DEF TypeOK, Rewind, Absent, Less
  <2>3. tokens' \in 0..RATE /\ overrun' \in Nat
    BY <1>2, <2>2 DEF TypeOK, TakeToken, Less
  <2>4. age' \in 0..MaxLag
    BY <1>2, <2>1 DEF TakeToken
  <2> QED  BY <1>2, <2>1, <2>3, <2>4 DEF TypeOK, TakeToken
<1>3. CASE Tick
  BY <1>3 DEF TypeOK, Tick, Less
<1>4. CASE UNCHANGED vars
  BY <1>4 DEF TypeOK, vars
<1> QED
  BY <1>1, <1>2, <1>3, <1>4 DEF Next

(***************************************************************************)
(* A key that has expired was full long before: nothing counted is left.   *)
(***************************************************************************)
LEMMA ExpiredIsFull ==
    ASSUME BucketInv, Absent
    PROVE  overrun = 0
  BY BucketAssumption DEF BucketInv, TypeOK, Absent, Spent

(***************************************************************************)
(* What is spent follows the script: a grant adds one, a rewind takes back *)
(* what it moves updated_at, and a full bucket starts again.               *)
(***************************************************************************)
LEMMA TakeSpent ==
    ASSUME BucketInv, NEW c \in Callers, TakeToken(c), NEW g \in {0, 1},
           tokens' = Refilled(call[c]) - g,
           overrun' = Less(overrun + g, Rewind(call[c]))
    PROVE  overrun' = 0 \/ overrun' <= Spent' + MaxLag
<1> USE BucketAssumption
<1>1. /\ call[c] \in Nat /\ clock \in Nat /\ call[c] <= clock
      /\ clock <= call[c] + MaxLag /\ tokens \in 0..RATE /\ overrun \in Nat
      /\ clock' = clock /\ updated_at' = call[c]
  BY DEF BucketInv, TypeOK, TakeToken
<1>2. Spent' = RATE - (Refilled(call[c]) - g) - (clock - call[c])
  BY <1>1 DEF Spent
<1>3. CASE Absent
  <2>1. overrun = 0 /\ Refilled(call[c]) = RATE /\ Rewind(call[c]) = 0
    BY <1>3, ExpiredIsFull DEF Refilled, Rewind
  <2>2. overrun' = g
    BY <2>1 DEF Less
  <2> QED  BY <1>1, <1>2, <2>1, <2>2
<1>4. CASE ~Absent
  <2>1. /\ updated_at \in Nat /\ updated_at <= clock
        /\ overrun = 0 \/ overrun <= RATE - tokens - (clock - updated_at) + MaxLag
    BY <1>4 DEF BucketInv, TypeOK, Absent, Spent
  <2>2. CASE call[c] < updated_at
    <3>1. Refilled(call[c]) = tokens /\ Rewind(call[c]) = updated_at - call[c]
      BY <1>1, <1>4, <2>1, <2>2 DEF Refilled, Rewind, Less
    <3>2. Spent' = RATE - tokens + g - (clock - call[c])
      BY <1>1, <1>2, <3>1
    <3>3. \/ overrun' = 0
          \/ overrun' = overrun + g - (updated_at - call[c])
      BY <1>1, <2>1, <3>1 DEF Less
    <3> QED  BY <1>1, <2>1, <2>2, <3>2, <3>3
  <2>3. CASE call[c] >= updated_at
    <3>1. Rewind(call[c]) = 0 /\ overrun' = overrun + g
      BY <1>1, <1>4, <2>1, <2>3 DEF Rewind, Less
    <3>2. Less(call[c], updated_at) = call[c] - updated_at
      BY <1>1, <2>1, <2>3 DEF Less
    <3>3. CASE tokens + (call[c] - updated_at) > RATE
      <4>1. Refilled(call[c]) = RATE
        BY <3>2, <3>3 DEF Refilled
      <4> QED  BY <1>1, <1>2, <2>1, <2>3, <3>1, <3>3, <4>1
    <3>4. CASE tokens + (call[c] - updated_at) <= RATE
      <4>1. Refilled(call[c]) = tokens + (call[c] - updated_at)
        BY <1>1, <1>4, <2>1, <3>2, <3>4 DEF Refilled
      <4> QED  BY <1>1, <1>2, <2>1, <2>3, <3>1, <3>4, <4>1
    <3> QED  BY <1>1, <2>1, <3>3, <3>4
  <2> QED  BY <1>1, <2>1, <2>2, <2>3
<1> QED
  BY <1>3, <1>4

(***************************************************************************)
(* The invariant is inductive.                                             *)
(***************************************************************************)
LEMMA BucketStep ==
    ASSUME BucketInv, [Next]_vars
    PROVE  BucketInv'
<1> USE BucketAssumption
<1>0. TypeOK'
  BY BucketTypes DEF BucketInv
<1>1. ASSUME NEW c \in Callers, Start(c) PROVE BucketInv'
  BY <1>0, <1>1 DEF BucketInv, Start, Spent
<1>2. ASSUME NEW c \in Callers, TakeToken(c) PROVE BucketInv'
  <2>1. /\ updated_at' = call[c] /\ call[c] \in Nat /\ call[c] # None
        /\ call[c] <= clock /\ writtenAt' = clock
    BY <1>2 DEF TakeToken, BucketInv, TypeOK
  <2>2. overrun' = 0 \/ overrun' <= Spent' + MaxLag
    <3>1. overrun \in Nat /\ Refilled(call[c]) \in 0..RATE
      BY <2>1, RefilledType DEF BucketInv, TypeOK
    <3>2. \E g \in {0, 1} : /\ tokens' = Refilled(call[c]) - g
                            /\ overrun' = Less(overrun + g, Rewind(call[c]))
      <4>1. CASE tokens' = Refilled(call[c]) - 1 /\ overrun' = Less(overrun + 1, Rewind(call[c]))
        BY <4>1
      <4>2. CASE tokens' = Refilled(call[c]) /\ overrun' = Less(overrun, Rewind(call[c]))
        <5>1. overrun + 0 = overrun /\ Refilled(call[c]) - 0 = Refilled(call[c])
          BY <3>1
        <5> QED  BY <4>2, <5>1
      <4> QED  BY <1>2, <4>1, <4>2 DEF TakeToken
    <3> QED  BY <1>2, <3>2, TakeSpent
  <2> QED  BY <1>0, <2>1, <2>2 DEF BucketInv
<1>3. CASE Tick
  <2>1. /\ clock \in Nat /\ clock' = clock + 1 /\ tokens' = tokens /\ tokens \in 0..RATE
        /\ updated_at' = updated_at /\ writtenAt' = writtenAt
        /\ overrun \in Nat /\ overrun' = Less(overrun, 1)
    BY <1>3 DEF BucketInv, TypeOK, Tick
  <2>2. overrun' = 0 \/ overrun' = overrun - 1
    BY <2>1 DEF Less
  <2>3. overrun = 0 => overrun' = 0
    BY <2>1 DEF Less
  <2>4. CASE updated_at = None
    BY <1>0, <2>1, <2>3, <2>4 DEF BucketInv
  <2>5. CASE updated_at # None
    <3>1. updated_at \in Nat /\ (overrun = 0 \/ overrun <= Spent + MaxLag)
      BY <2>5 DEF BucketInv, TypeOK
    <3>2. Spent \in Int /\ Spent' = Spent - 1
      BY <2>1, <3>1 DEF Spent
    <3>3. overrun' = 0 \/ overrun' <= Spent' + MaxLag
      BY <2>1, <2>2, <2>3, <3>1, <3>2
    <3> QED  BY <1>0, <2>1, <2>5, <3>3 DEF BucketInv
  <2> QED  BY <2>4, <2>5
<1>4. CASE UNCHANGED vars
  BY <1>0, <1>4 DEF vars, BucketInv, Spent
<1> QED
  BY <1>1, <1>2, <1>3, <1>4 DEF Next

\* A fresh bucket is full and nothing has been granted.
LEMMA BucketInit ==
    ASSUME Init
    PROVE  BucketInv
  BY BucketAssumption DEF Init, BucketInv, TypeOK

(***************************************************************************)
(* RateUpToRewindsCorrect: for any number of concurrent handlers and any   *)
(* lag between their reading of the time and take_token, no interval of n  *)
(* ticks sees more grants than RATE + MaxLag + n and the ticks by which    *)
(* late scripts moved updated_at back.                                     *)
(***************************************************************************)
THEOREM RateUpToRewindsCorrect == Spec => []RateUpToRewinds
<1>1. Init => BucketInv
  BY BucketInit
<1>2. BucketInv /\ [Next]_vars => BucketInv'
  BY BucketStep
<1>3. BucketInv => RateUpToRewinds
  BY BucketAssumption DEF BucketInv, RateUpToRewinds, TypeOK, Spent
<1> QED
  BY <1>1, <1>2, <1>3, PTL DEF Spec

(***************************************************************************)
(* take_token as the contract sees it: what is available now, less the     *)
(* grant, and with at most the age of the reading given back.              *)
(***************************************************************************)
LEMMA TakeEffect ==
    ASSUME BucketInv, NEW c \in Callers, TakeToken(c)
    PROVE  \E g \in {0, 1} :
              /\ answer' = IF g = 1 THEN "granted" ELSE "refused"
              /\ g = 1 => Available >= 1
              /\ g = 0 => Available <= age'
              /\ Available - g <= Available'
              /\ Available' <= Available - g + age'
<1> USE BucketAssumption
<1>1. /\ call[c] \in Nat /\ clock \in Nat /\ call[c] <= clock /\ tokens \in 0..RATE
      /\ updated_at # None => updated_at \in Nat /\ updated_at <= clock
      /\ writtenAt \in Nat
  BY DEF BucketInv, TypeOK, TakeToken
<1>2. /\ clock' = clock /\ updated_at' = call[c] /\ writtenAt' = clock
      /\ age' = clock - call[c]
  BY DEF TakeToken
<1>3. Refilled(call[c]) \in 0..RATE /\ Available \in 0..RATE
  BY <1>1, RefilledType DEF BucketInv, Available
<1>4. Refilled(call[c]) <= Available /\ Available <= Refilled(call[c]) + age'
  <2>1. CASE Absent
    BY <1>1, <1>2, <2>1 DEF Available, Refilled
  <2>2. CASE ~Absent
    <3>1. updated_at \in Nat /\ updated_at <= clock
      BY <1>1, <2>2 DEF Absent
    <3>2. Less(clock, updated_at) = clock - updated_at
      BY <1>1, <3>1 DEF Less
    <3>3. /\ Less(call[c], updated_at) \in Nat
          /\ Less(call[c], updated_at) <= clock - updated_at
          /\ clock - updated_at <= Less(call[c], updated_at) + (clock - call[c])
      BY <1>1, <3>1 DEF Less
    <3> QED  BY <1>1, <1>2, <2>2, <3>1, <3>2, <3>3 DEF Available, Refilled
  <2> QED  BY <2>1, <2>2
<1>5. ASSUME NEW n \in 0..RATE, tokens' = n
      PROVE  Available' = IF n + age' > RATE THEN RATE ELSE n + age'
  <2>1. ~Absent'
    BY <1>1, <1>2 DEF Absent
  <2>2. Less(clock, call[c]) = clock - call[c]
    BY <1>1 DEF Less
  <2>3. Available' = IF n + Less(clock, call[c]) > RATE THEN RATE ELSE n + Less(clock, call[c])
    BY <1>2, <1>5, <2>1 DEF Available, Refilled
  <2> QED  BY <1>1, <1>2, <2>2, <2>3
<1>6. age' \in Nat
  BY <1>1, <1>2
<1>7. CASE Refilled(call[c]) >= 1 /\ tokens' = Refilled(call[c]) - 1 /\ answer' = "granted"
  <2>1. /\ tokens' \in 0..RATE
        /\ Available' = IF tokens' + age' > RATE THEN RATE ELSE tokens' + age'
    BY <1>3, <1>5, <1>7
  <2>2. /\ Available >= 1 /\ Available - 1 <= Available'
        /\ Available' <= Available - 1 + age'
    BY <1>3, <1>4, <1>6, <1>7, <2>1
  <2> QED  BY <1>7, <2>2
<1>8. CASE Refilled(call[c]) < 1 /\ tokens' = Refilled(call[c]) /\ answer' = "refused"
  <2>1. Available' = IF tokens' + age' > RATE THEN RATE ELSE tokens' + age'
    BY <1>3, <1>5, <1>8
  <2>2. /\ Available <= age' /\ Available - 0 <= Available'
        /\ Available' <= Available - 0 + age'
    BY <1>3, <1>4, <1>6, <1>8, <2>1
  <2> QED  BY <1>8, <2>2
<1> QED
  BY <1>7, <1>8 DEF TakeToken

(***************************************************************************)
(* A tick adds one token until the burst is reached, also when it lets the *)
(* key expire.                                                             *)
(***************************************************************************)
LEMMA TickEffect ==
    ASSUME BucketInv, Tick
    PROVE  Available' = IF Available < RATE THEN Available + 1 ELSE RATE
<1> USE BucketAssumption
<1>1. /\ clock \in Nat /\ clock' = clock + 1 /\ tokens' = tokens /\ tokens \in 0..RATE
      /\ updated_at' = updated_at /\ writtenAt' = writtenAt
      /\ writtenAt \in Nat /\ writtenAt <= clock
      /\ updated_at = None \/ (updated_at \in Nat /\ updated_at <= writtenAt)
  BY DEF BucketInv, TypeOK, Tick
<1>2. CASE Absent
  BY <1>1, <1>2 DEF Available, Refilled, Absent
<1>3. CASE ~Absent
  <2>1. /\ updated_at \in Nat /\ updated_at <= writtenAt /\ clock - writtenAt < KeyTTL
        /\ updated_at # None
    BY <1>1, <1>3 DEF Absent
  <2> DEFINE n == tokens + (clock - updated_at)
  <2>2. Less(clock, updated_at) = clock - updated_at
    BY <1>1, <2>1 DEF Less
  <2>3. n \in Nat /\ Available = IF n > RATE THEN RATE ELSE n
    BY <1>1, <1>3, <2>1, <2>2 DEF Available, Refilled
  <2>4. CASE Absent'
    <3>1. Available' = RATE
      BY <2>4 DEF Available, Refilled
    <3>2. n + 1 >= RATE
      BY <1>1, <2>1, <2>4 DEF Absent
    <3> QED  BY <2>3, <3>1, <3>2
  <2>5. CASE ~Absent'
    <3>1. Less(clock', updated_at') = clock + 1 - updated_at
      BY <1>1, <2>1 DEF Less
    <3>2. Available' = IF n + 1 > RATE THEN RATE ELSE n + 1
      BY <1>1, <2>1, <2>5, <3>1 DEF Available, Refilled
    <3> QED  BY <2>3, <3>2
  <2> QED  BY <2>4, <2>5
<1> QED
  BY <1>2, <1>3

(***************************************************************************)
(* BucketImplementsContract: for any lag, the bucket in Redis is the leaky *)
(* bucket of RateContract: every grant, refusal and tick maps to one of    *)
(* its steps, and take_token errs by the age of its reading at most.       *)
(***************************************************************************)
THEOREM BucketImplementsContract == Spec => MeetsContract
<1>1. Init => BucketInv /\ Contract!Init
  <2> SUFFICES ASSUME Init PROVE BucketInv /\ Contract!Init
    OBVIOUS
  <2>1. Refilled(clock) = RATE
    BY DEF Init, Refilled, Absent
  <2> QED
    BY <2>1, BucketInit, BucketAssumption DEF Init, Contract!Init
<1>2. BucketInv /\ [Next]_vars
         => BucketInv' /\ [Contract!Next]_<<RATE - Refilled(clock), answer, age>>
  <2> SUFFICES ASSUME BucketInv, [Next]_vars
               PROVE  [Contract!Next]_<<RATE - Refilled(clock), answer, age>>
    BY BucketStep
  <2>0. TypeOK /\ TypeOK'
    BY BucketTypes DEF BucketInv
  <2>1. Available \in 0..RATE /\ Available' \in 0..RATE /\ age' \in Nat
    <3>1. Available \in 0..RATE
      BY <2>0, RefilledType DEF TypeOK, Available
    <3>2. Available' \in 0..RATE
      <4>1. /\ tokens' \in 0..RATE /\ clock' \in Nat
            /\ ~Absent' => updated_at' \in Nat
        BY <2>0 DEF TypeOK, Absent
      <4>2. ~Absent' => Less(clock', updated_at') \in Nat
        BY <4>1 DEF Less
      <4> QED  BY <4>1, <4>2, BucketAssumption DEF Available, Refilled
    <3> QED  BY <2>0, <3>1, <3>2, BucketAssumption DEF TypeOK
  <2>2. ASSUME NEW c \in Callers, Start(c)
        PROVE  Available' = Available /\ answer' = answer /\ age' = age
    BY <2>2 DEF Start, Available, Refilled, Absent
  <2>3. ASSUME NEW c \in Callers, TakeToken(c)
        PROVE  Contract!Next
    <3>1. PICK g \in {0, 1} :
              /\ answer' = IF g = 1 THEN "granted" ELSE "refused"
              /\ g = 1 => Available >= 1
              /\ g = 0 => Available <= age'
              /\ Available - g <= Available'
              /\ Available' <= Available - g + age'
      BY <2>3, TakeEffect
    <3>2. CASE g = 1
      BY <2>1, <3>1, <3>2, BucketAssumption
      DEF Contract!Next, Contract!Grant, Contract!Drained, Available
    <3>3. CASE g = 0
      BY <2>1, <3>1, <3>3, BucketAssumption
      DEF Contract!Next, Contract!Refuse, Contract!Drained, Available
    <3> QED  BY <3>2, <3>3
  <2>4. CASE Tick
    <3>1. answer' = answer /\ age' = age
      BY <2>4 DEF Tick
    <3>2. CASE Available < RATE
      BY <2>1, <2>4, <3>1, <3>2, TickEffect, BucketAssumption
      DEF Contract!Next, Contract!Drain, Available
    <3>3. CASE Available = RATE
      BY <2>1, <2>4, <3>1, <3>3, TickEffect, BucketAssumption DEF Available
    <3> QED  BY <2>1, <3>2, <3>3, BucketAssumption
  <2>5. CASE UNCHANGED vars
    BY <2>5 DEF vars, Refilled, Absent
  <2> QED
    BY <2>2, <2>3, <2>4, <2>5 DEF Next, Available
<1> QED
  BY <1>1, <1>2, PTL DEF Spec, MeetsContract, Contract!Spec

-----------------------------------------------------------------------------
(***************************************************************************)
(* Every step of the gates is a step of the bucket or leaves it alone.     *)
(***************************************************************************)
LEMMA GatesStepBucket ==
    ASSUME [GatesNext]_gates
    PROVE  [Next]_vars
<1>1. ASSUME NEW c \in Callers, Enter(c) \/ PassRate(c) PROVE Next
  BY <1>1 DEF Enter, PassRate, Next
<1>2. ASSUME NEW c \in Callers,
             (\E t \in Tokens : AcquireSlot(c, t)) \/ ReleaseSlot(c) \/ Crash(c)
      PROVE  UNCHANGED vars
  BY <1>2 DEF AcquireSlot, ReleaseSlot, Crash
<1>3. GatesTick => Next
  BY DEF GatesTick, Next
<1>4. UNCHANGED gates => UNCHANGED vars
  BY DEF gates, vars
<1> QED
  BY <1>1, <1>2, <1>3, <1>4 DEF GatesNext

(***************************************************************************)
(* GatesImplementBucket: the bucket keeps its promises for handlers that   *)
(* pass the concurrency cap as well (check_gates, acquire_slot): the rate  *)
(* is exceeded by rewinds only and the contract met.                       *)
(***************************************************************************)
THEOREM GatesImplementBucket == GatesSpec => []RateUpToRewinds /\ MeetsContract
<1>1. GatesInit => Init
  BY DEF GatesInit
<1>2. [GatesNext]_gates => [Next]_vars
  BY GatesStepBucket
<1>3. GatesSpec => Spec
  BY <1>1, <1>2, PTL DEF GatesSpec, Spec
<1> QED
  BY <1>3, RateUpToRewindsCorrect, BucketImplementsContract

-----------------------------------------------------------------------------
Senders == {c \in Callers : At(c, "send")}
OwnSlot(c) == [token |-> gate[c].token, expiry |-> gate[c].now + SLOT_TTL_SECONDS]

(***************************************************************************)
(* The inductive invariant of the cap: a handler at work has read the time *)
(* at most HandlerMax ago and holds a slot of its own, which therefore has *)
(* not expired; every slot belongs to such a handler or to one that died.  *)
(***************************************************************************)
SlotInv ==
    /\ \A c \in Callers : call[c] # None => At(c, "idle")
    /\ \A c \in Callers : ~At(c, "idle") => /\ gate[c].now <= clock
                                           /\ clock <= gate[c].now + HandlerMax
    /\ \A c \in Callers : Holding(c) => OwnSlot(c) \in slots
    /\ \A b, c \in Callers : Holding(b) /\ gate[b].token = gate[c].token => b = c
    /\ \A s, t \in slots : s.token = t.token => s = t
    /\ \A s \in slots : s \in leaked \/ \E c \in Callers : Holding(c) /\ s = OwnSlot(c)
    /\ \A s \in leaked, c \in Callers : Holding(c) /\ s \in slots => s.token # gate[c].token
    /\ \A s \in leaked : s \in slots \/ s.expiry <= clock

SlotTypes ==
    /\ slots \subseteq Slot
    /\ gate \in [Callers -> [pc : {"idle", "acquire", "send"}, now : Nat,
                             token : Tokens \cup {None}]]
    /\ faults \in Nat
    /\ leaked \subseteq Slot
    /\ \A c \in Callers : At(c, "send") <=> Holding(c)

GatesInv ==
    /\ TypeOK
    /\ SlotTypes
    /\ IsFiniteSet(slots)
    /\ IsFiniteSet(leaked)
    /\ SlotInv

\* The slot of a handler at work is in the ZSET and has not expired.
LEMMA OwnSlotLive ==
    ASSUME TypeOK, SlotTypes, SlotInv, NEW c \in Callers, At(c, "send")
    PROVE  OwnSlot(c) \in slots /\ OwnSlot(c).expiry > clock
  BY SlotAssumption, TTLAssumption DEF TypeOK, SlotTypes, SlotInv, OwnSlot, At, Holding

(***************************************************************************)
(* The handlers at work are no more than the slots a sweep leaves.         *)
(***************************************************************************)
LEMMA SendersSwept ==
    ASSUME GatesInv, NEW now \in Nat, now <= clock
    PROVE  /\ IsFiniteSet(Swept(now)) /\ IsFiniteSet(Senders)
           /\ Cardinality(Senders) \in Nat /\ Cardinality(Swept(now)) \in Nat
           /\ Cardinality(Senders) <= Cardinality(Swept(now))
<1> DEFINE f == [c \in Senders |-> OwnSlot(c)]
<1>1. IsFiniteSet(Swept(now))
  <2>1. Swept(now) \in SUBSET slots
    BY DEF Swept
  <2> QED  BY <2>1, FS_Subset DEF GatesInv
<1>2. \A c \in Senders : OwnSlot(c) \in Swept(now)
  <2> SUFFICES ASSUME NEW c \in Senders PROVE OwnSlot(c) \in Swept(now)
    OBVIOUS
  <2>1. OwnSlot(c) \in slots /\ OwnSlot(c).expiry > clock
    BY OwnSlotLive DEF Senders, GatesInv
  <2>2. clock \in Nat /\ OwnSlot(c).expiry \in Nat
    BY <2>1 DEF GatesInv, TypeOK, SlotTypes, Slot
  <2> QED  BY <2>1, <2>2 DEF Swept
<1>3. \A b, c \in Senders : OwnSlot(b) = OwnSlot(c) => b = c
  BY DEF GatesInv, SlotTypes, SlotInv, OwnSlot, Senders
<1>4. f \in Injection(Senders, Swept(now))
  BY <1>2, <1>3 DEF Injection, IsInjective
<1>5. IsFiniteSet(Senders) /\ Cardinality(Senders) <= Cardinality(Swept(now))
  BY <1>1, <1>4, FS_Injection
<1> QED
  BY <1>1, <1>5, FS_CardinalityType

(***************************************************************************)
(* The slots a sweep leaves are no more than the handlers at work and the  *)
(* live slots of dead ones.                                                *)
(***************************************************************************)
LEMMA SweptCovered ==
    ASSUME GatesInv, NEW now \in Nat, now <= clock
    PROVE  Cardinality(Swept(now))
             <= Cardinality(Senders) + Cardinality({s \in leaked : s.expiry > now})
<1> DEFINE dead == {s \in leaked : s.expiry > now}
           own  == Swept(now) \ leaked
           f    == [s \in own |-> CHOOSE c \in Senders : s = OwnSlot(c)]
<1>1. /\ IsFiniteSet(Swept(now)) /\ IsFiniteSet(Senders)
      /\ Cardinality(Senders) \in Nat /\ Cardinality(Swept(now)) \in Nat
  BY SendersSwept
<1>2. IsFiniteSet(dead) /\ Cardinality(dead) \in Nat
  <2>1. dead \in SUBSET leaked
    OBVIOUS
  <2> QED  BY <2>1, FS_Subset, FS_CardinalityType DEF GatesInv
<1>3. \A s \in own : \E c \in Senders : s = OwnSlot(c)
  BY DEF GatesInv, SlotTypes, SlotInv, Senders, Swept
<1>4. \A s \in own : f[s] \in Senders /\ s = OwnSlot(f[s])
  BY <1>3
<1>5. f \in Injection(own, Senders)
  BY <1>4 DEF Injection, IsInjective
<1>6. Cardinality(own) <= Cardinality(Senders)
  BY <1>1, <1>5, FS_Injection
<1>7. IsFiniteSet(own) /\ Cardinality(own) \in Nat
  <2>1. own \in SUBSET Swept(now)
    OBVIOUS
  <2> QED  BY <1>1, <2>1, FS_Subset, FS_CardinalityType
<1>8. /\ Cardinality(own \cup dead) = Cardinality(own) + Cardinality(dead)
                                       - Cardinality(own \cap dead)
      /\ IsFiniteSet(own \cup dead)
  BY <1>2, <1>7, FS_Union
<1>9. own \cap dead = {}
  OBVIOUS
<1>10. Cardinality(Swept(now)) <= Cardinality(own \cup dead)
  <2>1. Swept(now) \in SUBSET (own \cup dead)
    BY DEF Swept
  <2> QED  BY <1>8, <2>1, FS_Subset
<1>11. Cardinality(own \cap dead) = 0
  BY <1>9, FS_EmptySet
<1>12. Cardinality(own \cup dead) = Cardinality(own) + Cardinality(dead)
  BY <1>2, <1>7, <1>8, <1>11
<1> QED
  BY <1>1, <1>2, <1>6, <1>7, <1>10, <1>12

(***************************************************************************)
(* The invariant is inductive; only a step that touches the slots or the   *)
(* clock needs an argument.                                                *)
(***************************************************************************)
LEMMA GatesStep ==
    ASSUME GatesInv, [GatesNext]_gates
    PROVE  GatesInv'
<1> USE BucketAssumption, SlotAssumption, TTLAssumption
<1>0. TypeOK'
  BY GatesStepBucket, BucketTypes DEF GatesInv
<1>1. ASSUME NEW c \in Callers, Enter(c) PROVE GatesInv'
  <2>1. /\ UNCHANGED <<slots, gate, faults, leaked, clock>>
        /\ At(c, "idle") /\ call' = [call EXCEPT ![c] = clock]
    BY <1>1 DEF Enter, Start
  <2> QED
    BY <1>0, <2>1 DEF GatesInv, SlotTypes, SlotInv, OwnSlot, At, Holding, TypeOK
<1>2. ASSUME NEW c \in Callers, PassRate(c) PROVE GatesInv'
  <2>1. /\ UNCHANGED <<slots, faults, leaked, clock>>
        /\ call[c] \in Nat /\ call[c] <= clock /\ clock <= call[c] + MaxLag
        /\ call[c] # None /\ call' = [call EXCEPT ![c] = None]
        /\ \/ gate' = [gate EXCEPT ![c] = [pc |-> "acquire", now |-> call[c], token |-> None]]
           \/ gate' = [gate EXCEPT ![c] = Idle]
    BY <1>2 DEF PassRate, TakeToken, GatesInv, TypeOK
  <2>2. At(c, "idle") /\ ~Holding(c)
    BY <2>1 DEF GatesInv, SlotInv, SlotTypes, At
  <2>3. SlotTypes' /\ ~Holding(c)' /\ (\A b \in Callers \ {c} : gate'[b] = gate[b])
    BY <2>1 DEF GatesInv, SlotTypes, At, Holding, Idle
  <2>4. \A b \in Callers : /\ Holding(b)' <=> Holding(b)
                           /\ Holding(b) => OwnSlot(b)' = OwnSlot(b) /\ gate'[b] = gate[b]
    BY <2>2, <2>3 DEF Holding, OwnSlot
  <2>5. SlotInv'
    <3>1. \A b \in Callers : call'[b] # None => At(b, "idle")'
      BY <2>1, <2>3 DEF GatesInv, SlotInv, TypeOK, At
    <3>2. \A b \in Callers : ~At(b, "idle")' => /\ gate'[b].now <= clock'
                                               /\ clock' <= gate'[b].now + HandlerMax
      <4> SUFFICES ASSUME NEW b \in Callers, ~At(b, "idle")'
                   PROVE  gate'[b].now <= clock' /\ clock' <= gate'[b].now + HandlerMax
        OBVIOUS
      <4>1. CASE b = c
        BY <2>1, <4>1 DEF GatesInv, SlotTypes, TypeOK, At, Idle
      <4>2. CASE b # c
        BY <2>1, <2>3, <4>2 DEF GatesInv, SlotInv, At
      <4> QED  BY <4>1, <4>2
    <3>3. \A b \in Callers : Holding(b)' => OwnSlot(b)' \in slots'
      BY <2>1, <2>4 DEF GatesInv, SlotInv
    <3>4. \A a, b \in Callers : Holding(a)' /\ gate'[a].token = gate'[b].token => a = b
      BY <2>3, <2>4 DEF GatesInv, SlotInv, Holding
    <3>5. \A s \in slots' : s \in leaked' \/ \E b \in Callers : Holding(b)' /\ s = OwnSlot(b)'
      BY <2>1, <2>4 DEF GatesInv, SlotInv
    <3>6. \A s \in leaked', b \in Callers : Holding(b)' /\ s \in slots' => s.token # gate'[b].token
      BY <2>1, <2>4 DEF GatesInv, SlotInv
    <3> QED
      BY <2>1, <3>1, <3>2, <3>3, <3>4, <3>5, <3>6 DEF GatesInv, SlotInv
  <2> QED
    BY <1>0, <2>1, <2>3, <2>5 DEF GatesInv
<1>3. ASSUME NEW c \in Callers, NEW token \in Tokens, AcquireSlot(c, token)
      PROVE  GatesInv'
  <2> DEFINE now == gate[c].now
             new == [token |-> token, expiry |-> now + SLOT_TTL_SECONDS]
  <2>1. /\ At(c, "acquire") /\ ~Holding(c) /\ UNCHANGED <<faults, leaked, clock, call>>
        /\ now \in Nat /\ clock \in Nat /\ now <= clock /\ clock <= now + HandlerMax
        /\ \A s \in slots : s.token # token
        /\ \A b \in Callers : gate[b].token # token
    BY <1>3 DEF AcquireSlot, GatesInv, SlotTypes, SlotInv, TypeOK, At, vars
  <2>2. IsFiniteSet(Swept(now)) /\ Swept(now) \subseteq slots
    BY <2>1, SendersSwept DEF Swept
  <2>3. \A b \in Callers : Holding(b) => OwnSlot(b) \in Swept(now)
    <3> SUFFICES ASSUME NEW b \in Callers, Holding(b) PROVE OwnSlot(b) \in Swept(now)
      OBVIOUS
    <3>1. OwnSlot(b) \in slots /\ OwnSlot(b).expiry > clock /\ OwnSlot(b).expiry \in Nat
      BY OwnSlotLive DEF GatesInv, SlotTypes, Slot
    <3> QED  BY <2>1, <3>1 DEF Swept
  <2>4. CASE /\ slots' = Swept(now)
             /\ gate' = [gate EXCEPT ![c] = Idle]
    <3>1. SlotTypes' /\ ~Holding(c)' /\ (\A b \in Callers \ {c} : gate'[b] = gate[b])
      BY <2>1, <2>2, <2>4 DEF GatesInv, SlotTypes, At, Holding, Idle
    <3>2. \A b \in Callers : /\ Holding(b)' <=> Holding(b)
                             /\ Holding(b) => OwnSlot(b)' = OwnSlot(b) /\ gate'[b] = gate[b]
      BY <2>1, <3>1 DEF Holding, OwnSlot
    <3>3. \A b \in Callers : At(b, "idle") => At(b, "idle")'
      BY <2>4, <3>1 DEF At, Idle, GatesInv, SlotTypes
    <3>4. At(c, "idle")'
      BY <2>4 DEF At, Idle, GatesInv, SlotTypes
    <3>5. SlotInv'
      <4>1. \A b \in Callers : call'[b] # None => At(b, "idle")'
        BY <2>1, <2>2, <2>3, <2>4, <3>1, <3>2, <3>3, <3>4 DEF GatesInv, SlotInv, At, TypeOK
      <4>2. \A b \in Callers : ~At(b, "idle")' => /\ gate'[b].now <= clock'
                                               /\ clock' <= gate'[b].now + HandlerMax
        BY <2>1, <2>2, <2>3, <2>4, <3>1, <3>2, <3>3, <3>4 DEF GatesInv, SlotInv, At
      <4>3. \A b \in Callers : Holding(b)' => OwnSlot(b)' \in slots'
        BY <2>1, <2>2, <2>3, <2>4, <3>1, <3>2, <3>3, <3>4 DEF GatesInv, SlotInv
      <4>4. \A a, b \in Callers : Holding(a)' /\ gate'[a].token = gate'[b].token => a = b
        BY <2>1, <2>2, <2>3, <2>4, <3>1, <3>2, <3>3, <3>4 DEF GatesInv, SlotInv, Holding
      <4>5. \A s, t \in slots' : s.token = t.token => s = t
        BY <2>1, <2>2, <2>3, <2>4, <3>1, <3>2, <3>3, <3>4 DEF GatesInv, SlotInv
      <4>6. \A s \in slots' : s \in leaked' \/ \E b \in Callers : Holding(b)' /\ s = OwnSlot(b)'
        BY <2>1, <2>2, <2>3, <2>4, <3>1, <3>2, <3>3, <3>4 DEF GatesInv, SlotInv, OwnSlot
      <4>7. \A s \in leaked', b \in Callers : Holding(b)' /\ s \in slots' => s.token # gate'[b].token
        BY <2>1, <2>2, <2>3, <2>4, <3>1, <3>2, <3>3, <3>4 DEF GatesInv, SlotInv
      <4>8. \A s \in leaked' : s \in slots' \/ s.expiry <= clock'
        BY <2>1, <2>4 DEF Swept, GatesInv, SlotInv, SlotTypes, Slot
      <4> QED
        BY <4>1, <4>2, <4>3, <4>4, <4>5, <4>6, <4>7, <4>8 DEF SlotInv
    <3> QED
      BY <1>0, <2>1, <2>2, <2>4, <3>1, <3>5 DEF GatesInv
  <2>5. CASE /\ slots' = Swept(now) \cup {new}
             /\ gate' = [gate EXCEPT ![c] = [pc |-> "send", now |-> now, token |-> token]]
    <3>1. /\ SlotTypes' /\ (\A b \in Callers \ {c} : gate'[b] = gate[b])
          /\ gate'[c] = [pc |-> "send", now |-> now, token |-> token]
          /\ Holding(c)' /\ OwnSlot(c)' = new
      BY <2>1, <2>2, <2>5 DEF GatesInv, SlotTypes, Slot, At, Holding, OwnSlot
    <3>2. \A b \in Callers \ {c} : /\ Holding(b)' <=> Holding(b)
                                   /\ OwnSlot(b)' = OwnSlot(b)
      BY <3>1 DEF Holding, OwnSlot
    <3>3. IsFiniteSet(slots')
      BY <2>2, <2>5, FS_AddElement
    <3>4. SlotInv'
      <4>1. \A b \in Callers : call'[b] # None => At(b, "idle")'
        BY <2>1, <3>1 DEF GatesInv, SlotInv, At
      <4>2. \A b \in Callers : ~At(b, "idle")' => /\ gate'[b].now <= clock'
                                                 /\ clock' <= gate'[b].now + HandlerMax
        BY <2>1, <3>1 DEF GatesInv, SlotInv, At
      <4>3. \A b \in Callers : Holding(b)' => OwnSlot(b)' \in slots'
        BY <2>3, <2>5, <3>1, <3>2
      <4>4. \A a, b \in Callers : Holding(a)' /\ gate'[a].token = gate'[b].token => a = b
        BY <2>1, <3>1, <3>2 DEF GatesInv, SlotInv
      <4>5. \A s, t \in slots' : s.token = t.token => s = t
        BY <2>1, <2>2, <2>5 DEF GatesInv, SlotInv
      <4>6. \A s \in slots' : s \in leaked' \/ \E b \in Callers : Holding(b)' /\ s = OwnSlot(b)'
        BY <2>1, <2>2, <2>5, <3>1, <3>2 DEF GatesInv, SlotInv
      <4>7. \A s \in leaked', b \in Callers : Holding(b)' /\ s \in slots' => s.token # gate'[b].token
        <5> SUFFICES ASSUME NEW s \in leaked', NEW b \in Callers, Holding(b)', s \in slots'
                     PROVE  s.token # gate'[b].token
          OBVIOUS
        <5>1. CASE s \in slots
          BY <2>1, <3>1, <3>2, <5>1 DEF GatesInv, SlotInv
        <5>2. CASE s = new
          BY <2>1, <5>2 DEF GatesInv, SlotInv
        <5> QED  BY <2>2, <2>5, <5>1, <5>2
      <4>8. \A s \in leaked' : s \in slots' \/ s.expiry <= clock'
        BY <2>1, <2>5 DEF Swept, GatesInv, SlotInv, SlotTypes, Slot
      <4> QED
        BY <4>1, <4>2, <4>3, <4>4, <4>5, <4>6, <4>7, <4>8 DEF SlotInv
    <3> QED
      BY <1>0, <2>1, <3>1, <3>3, <3>4 DEF GatesInv
  <2> QED
    BY <1>3, <2>4, <2>5 DEF AcquireSlot
<1>4. ASSUME NEW c \in Callers, ReleaseSlot(c) PROVE GatesInv'
  <2>1. /\ At(c, "send") /\ Holding(c) /\ UNCHANGED <<faults, leaked, clock, call>>
        /\ slots' = {s \in slots : s.token # gate[c].token}
        /\ gate' = [gate EXCEPT ![c] = Idle]
    BY <1>4 DEF ReleaseSlot, GatesInv, SlotTypes, vars
  <2>2. /\ SlotTypes' /\ ~Holding(c)' /\ At(c, "idle")'
        /\ \A b \in Callers \ {c} : gate'[b] = gate[b]
    BY <2>1 DEF GatesInv, SlotTypes, At, Holding, Idle
  <2>3. \A b \in Callers \ {c} : (Holding(b)' <=> Holding(b)) /\ OwnSlot(b)' = OwnSlot(b)
    BY <2>2 DEF Holding, OwnSlot
  <2>4. IsFiniteSet(slots')
    <3>1. slots' \in SUBSET slots
      BY <2>1
    <3> QED  BY <3>1, FS_Subset DEF GatesInv
  <2>5. \A b \in Callers \ {c} : Holding(b) => OwnSlot(b) \in slots'
    BY <2>1 DEF GatesInv, SlotInv, OwnSlot
  <2>6. SlotInv'
    <3>1. \A b \in Callers : call'[b] # None => At(b, "idle")'
      BY <2>1, <2>2, <2>3, <2>5 DEF GatesInv, SlotInv, At, TypeOK
    <3>2. \A b \in Callers : ~At(b, "idle")' => /\ gate'[b].now <= clock'
                                             /\ clock' <= gate'[b].now + HandlerMax
      BY <2>1, <2>2, <2>3, <2>5 DEF GatesInv, SlotInv, At
    <3>3. \A b \in Callers : Holding(b)' => OwnSlot(b)' \in slots'
      BY <2>1, <2>2, <2>3, <2>5 DEF GatesInv, SlotInv
    <3>4. \A a, b \in Callers : Holding(a)' /\ gate'[a].token = gate'[b].token => a = b
      BY <2>1, <2>2, <2>3, <2>5 DEF GatesInv, SlotInv, Holding
    <3>5. \A s, t \in slots' : s.token = t.token => s = t
      BY <2>1, <2>2, <2>3, <2>5 DEF GatesInv, SlotInv
    <3>6. \A s \in slots' : s \in leaked' \/ \E b \in Callers : Holding(b)' /\ s = OwnSlot(b)'
      BY <2>1, <2>2, <2>3, <2>5 DEF GatesInv, SlotInv, OwnSlot
    <3>7. \A s \in leaked', b \in Callers : Holding(b)' /\ s \in slots' => s.token # gate'[b].token
      BY <2>1, <2>2, <2>3, <2>5 DEF GatesInv, SlotInv
    <3>8. \A s \in leaked' : s \in slots' \/ s.expiry <= clock'
      BY <2>1, <2>2, <2>3, <2>5 DEF GatesInv, SlotInv, SlotTypes, Slot
    <3> QED
      BY <3>1, <3>2, <3>3, <3>4, <3>5, <3>6, <3>7, <3>8 DEF SlotInv
  <2> QED
    BY <1>0, <2>1, <2>2, <2>4, <2>6 DEF GatesInv
<1>5. ASSUME NEW c \in Callers, Crash(c) PROVE GatesInv'
  <2>1. /\ UNCHANGED <<slots, clock, call>> /\ faults' = faults + 1
        /\ leaked' = leaked \cup {s \in slots : s.token = gate[c].token}
        /\ gate' = [gate EXCEPT ![c] = Idle]
    BY <1>5 DEF Crash, vars
  <2>2. /\ SlotTypes' /\ ~Holding(c)' /\ At(c, "idle")'
        /\ \A b \in Callers \ {c} : gate'[b] = gate[b]
    BY <2>1 DEF GatesInv, SlotTypes, At, Holding, Idle
  <2>3. \A b \in Callers \ {c} : (Holding(b)' <=> Holding(b)) /\ OwnSlot(b)' = OwnSlot(b)
    BY <2>2 DEF Holding, OwnSlot
  <2>4. IsFiniteSet(leaked')
    <3>1. {s \in slots : s.token = gate[c].token} \in SUBSET slots
      OBVIOUS
    <3>2. IsFiniteSet({s \in slots : s.token = gate[c].token})
      BY <3>1, FS_Subset DEF GatesInv
    <3> QED  BY <2>1, <3>2, FS_Union DEF GatesInv
  <2>5. SlotInv'
    <3>1. \A b \in Callers : call'[b] # None => At(b, "idle")'
      BY <2>1, <2>2, <2>3 DEF GatesInv, SlotInv, At, TypeOK
    <3>2. \A b \in Callers : ~At(b, "idle")' => /\ gate'[b].now <= clock'
                                             /\ clock' <= gate'[b].now + HandlerMax
      BY <2>1, <2>2, <2>3 DEF GatesInv, SlotInv, At
    <3>3. \A b \in Callers : Holding(b)' => OwnSlot(b)' \in slots'
      BY <2>1, <2>2, <2>3 DEF GatesInv, SlotInv
    <3>4. \A a, b \in Callers : Holding(a)' /\ gate'[a].token = gate'[b].token => a = b
      BY <2>1, <2>2, <2>3 DEF GatesInv, SlotInv, Holding
    <3>5. \A s, t \in slots' : s.token = t.token => s = t
      BY <2>1, <2>2, <2>3 DEF GatesInv, SlotInv
    <3>6. \A s \in slots' : s \in leaked' \/ \E b \in Callers : Holding(b)' /\ s = OwnSlot(b)'
      BY <2>1, <2>2, <2>3 DEF GatesInv, SlotInv, OwnSlot
    <3>7. \A s \in leaked', b \in Callers : Holding(b)' /\ s \in slots' => s.token # gate'[b].token
      BY <2>1, <2>2, <2>3 DEF GatesInv, SlotInv
    <3>8. \A s \in leaked' : s \in slots' \/ s.expiry <= clock'
      BY <2>1, <2>2, <2>3 DEF GatesInv, SlotInv, SlotTypes, Slot
    <3> QED
      BY <3>1, <3>2, <3>3, <3>4, <3>5, <3>6, <3>7, <3>8 DEF SlotInv
  <2> QED
    BY <1>0, <2>1, <2>2, <2>4, <2>5 DEF GatesInv
<1>6. CASE GatesTick
  <2>1. /\ UNCHANGED <<slots, gate, faults, leaked, call>>
        /\ clock \in Nat /\ clock' = clock + 1
        /\ \A c \in Callers : ~At(c, "idle") => clock < gate[c].now + HandlerMax
    BY <1>6 DEF GatesTick, Tick, GatesInv, TypeOK
  <2>2. SlotTypes'
    BY <2>1 DEF GatesInv, SlotTypes, At, Holding
  <2>3. SlotInv'
    <3>1. \A s \in leaked' : s \in slots' \/ s.expiry <= clock'
      BY <2>1 DEF GatesInv, SlotTypes, Slot, SlotInv
    <3>2. \A b \in Callers : ~At(b, "idle")' => /\ gate'[b].now <= clock'
                                             /\ clock' <= gate'[b].now + HandlerMax
      BY <2>1 DEF GatesInv, SlotTypes, SlotInv, At
    <3> QED  BY <2>1, <3>1, <3>2 DEF GatesInv, SlotInv, OwnSlot, At, Holding
  <2> QED
    BY <1>0, <2>1, <2>2, <2>3 DEF GatesInv
<1>7. CASE UNCHANGED gates
  BY <1>0, <1>7 DEF gates, GatesInv, SlotTypes, SlotInv, OwnSlot, At, Holding
<1> QED
  BY <1>1, <1>2, <1>3, <1>4, <1>5, <1>6, <1>7 DEF GatesNext

\* With no slot taken and nobody at work the invariant holds.
LEMMA GatesStart ==
    ASSUME GatesInit
    PROVE  GatesInv
<1>1. TypeOK
  BY BucketInit DEF GatesInit, BucketInv
<1>2. IsFiniteSet({})
  BY FS_EmptySet
<1> QED
  BY <1>1, <1>2, SlotAssumption
  DEF GatesInit, GatesInv, SlotTypes, SlotInv, Init, At, Holding, Idle

LEMMA GatesAlways == GatesSpec => []GatesInv
<1>1. GatesInit => GatesInv
  BY GatesStart
<1>2. GatesInv /\ [GatesNext]_gates => GatesInv'
  BY GatesStep
<1> QED  BY <1>1, <1>2, PTL DEF GatesSpec

(***************************************************************************)
(* BucketTypeCorrect: behind the gates, too, the bucket of take_token      *)
(* holds between nothing and the burst, and no time it keeps is ahead of   *)
(* the clock, for any lag of the handlers' readings.                       *)
(***************************************************************************)
THEOREM BucketTypeCorrect == GatesSpec => []TypeOK
<1>1. GatesInv => TypeOK
  BY DEF GatesInv
<1> QED  BY <1>1, GatesAlways, PTL

(***************************************************************************)
(* GatesTypeCorrect: a handler that sends holds a token of its own, and    *)
(* its slot (acquire_slot) is in the ZSET and has not expired: no sweep    *)
(* and no refused request takes it away before release_slot does.          *)
(***************************************************************************)
THEOREM GatesTypeCorrect == GatesSpec => []GatesTypeOK
<1>1. GatesInv => GatesTypeOK
  <2> SUFFICES ASSUME GatesInv, NEW c \in Callers, Holding(c)
               PROVE  OwnSlot(c) \in slots /\ OwnSlot(c).expiry > clock
    BY DEF GatesInv, SlotTypes, GatesTypeOK, OwnSlot
  <2> QED  BY OwnSlotLive DEF GatesInv, SlotTypes
<1> QED  BY <1>1, GatesAlways, PTL

(***************************************************************************)
(* CapRespectedCorrect: never more than max_inflight deliveries are out at *)
(* once, for any number of handlers, some of which die holding a slot      *)
(* (acquire_slot and release_slot).                                        *)
(***************************************************************************)
THEOREM CapRespectedCorrect == GatesSpec => []CapRespected
<1>1. GatesInit => GatesInv /\ CapRespected
  <2> SUFFICES ASSUME GatesInit PROVE CapRespected
    BY GatesStart
  <2>1. {c \in Callers : At(c, "send")} = {}
    BY DEF GatesInit, At, Idle
  <2> QED  BY <2>1, FS_EmptySet, SlotAssumption DEF CapRespected
<1>2. GatesInv /\ CapRespected /\ [GatesNext]_gates => GatesInv' /\ CapRespected'
  <2> SUFFICES ASSUME GatesInv, CapRespected, [GatesNext]_gates PROVE CapRespected'
    BY GatesStep
  <2>1. IsFiniteSet(Senders) /\ Cardinality(Senders) \in Nat
    BY SendersSwept DEF GatesInv, TypeOK
  <2>2. CASE Senders' \subseteq Senders
    <3>1. Senders' \in SUBSET Senders
      BY <2>2
    <3>2. Cardinality(Senders') <= Cardinality(Senders) /\ IsFiniteSet(Senders')
      BY <2>1, <3>1, FS_Subset
    <3>3. Cardinality(Senders') \in Nat
      BY <3>2, FS_CardinalityType
    <3> QED  BY <2>1, <3>2, <3>3, SlotAssumption DEF CapRespected, Senders
  <2>3. ASSUME NEW c \in Callers, NEW token \in Tokens, AcquireSlot(c, token)
        PROVE  CapRespected'
    <3>1. gate[c].now \in Nat /\ gate[c].now <= clock
      BY <2>3 DEF AcquireSlot, GatesInv, SlotTypes, SlotInv, At
    <3>2. CASE ~HasRoom(gate[c].now)
      <4>1. Senders' \subseteq Senders
        BY <2>3, <3>2 DEF AcquireSlot, Senders, At, Idle, GatesInv, SlotTypes
      <4> QED  BY <2>2, <4>1
    <3>3. CASE HasRoom(gate[c].now)
      <4>1. Cardinality(Senders) + 1 <= MaxInflight
        BY <2>1, <3>1, <3>3, SendersSwept, SlotAssumption DEF HasRoom
      <4>2. Senders' = Senders \cup {c}
        BY <2>3, <3>3 DEF AcquireSlot, Senders, At, GatesInv, SlotTypes
      <4>3. Cardinality(Senders \cup {c}) \in {Cardinality(Senders), Cardinality(Senders) + 1}
        BY <2>1, FS_AddElement
      <4>4. Cardinality(Senders') <= MaxInflight
        BY <2>1, <4>1, <4>2, <4>3, SlotAssumption
      <4> QED  BY <4>4 DEF CapRespected, Senders
    <3> QED  BY <3>2, <3>3
  <2>4. ASSUME NEW c \in Callers, Enter(c) \/ PassRate(c) \/ ReleaseSlot(c) \/ Crash(c)
        PROVE  Senders' \subseteq Senders
    BY <2>4 DEF Enter, PassRate, ReleaseSlot, Crash, Senders, At, Idle, GatesInv, SlotTypes
  <2>5. GatesTick \/ UNCHANGED gates => Senders' \subseteq Senders
    BY DEF GatesTick, gates, Senders, At
  <2> QED
    BY <2>2, <2>3, <2>4, <2>5 DEF GatesNext
<1> QED
  BY <1>1, <1>2, PTL DEF GatesSpec

(***************************************************************************)
(* RefusedAtCapCorrect: acquire_slot refuses only when the cap is used up  *)
(* by deliveries that are out and by slots of dead handlers that have not  *)
(* aged out yet.                                                           *)
(***************************************************************************)
THEOREM RefusedAtCapCorrect == GatesSpec => RefusedAtCap
<1> DEFINE Refusal == \A c \in Callers :
          (At(c, "acquire") /\ gate'[c].pc = "idle" /\ faults' = faults) =>
              Cardinality({b \in Callers : At(b, "send")})
                + Cardinality({s \in leaked : s.expiry > gate[c].now})
                    >= MaxInflight
<1>1. GatesInit => GatesInv
  BY GatesStart
<1>2. GatesInv /\ [GatesNext]_gates => GatesInv'
  BY GatesStep
<1>3. GatesInv /\ [GatesNext]_gates => [Refusal]_gates
  <2> SUFFICES ASSUME GatesInv, GatesNext, NEW c \in Callers,
                      At(c, "acquire"), gate'[c].pc = "idle", faults' = faults
               PROVE  Cardinality(Senders)
                        + Cardinality({s \in leaked : s.expiry > gate[c].now}) >= MaxInflight
    BY DEF Senders
  <2>1. PICK token \in Tokens : AcquireSlot(c, token)
    <3>1. ASSUME NEW b \in Callers, Crash(b) PROVE FALSE
      BY <3>1 DEF Crash, GatesInv, SlotTypes
    <3>2. ASSUME NEW b \in Callers, Enter(b) PROVE FALSE
      BY <3>2 DEF Enter, At
    <3>3. ASSUME NEW b \in Callers, PassRate(b) PROVE FALSE
      <4>1. call[b] # None /\ \E g : gate' = [gate EXCEPT ![b] = g]
        BY <3>3 DEF PassRate, TakeToken
      <4> QED  BY <4>1 DEF GatesInv, SlotInv, SlotTypes, At
    <3>4. ASSUME NEW b \in Callers, ReleaseSlot(b) PROVE FALSE
      BY <3>4 DEF ReleaseSlot, At, GatesInv, SlotTypes
    <3>5. ASSUME NEW b \in Callers, NEW t \in Tokens, AcquireSlot(b, t) PROVE b = c
      BY <3>5 DEF AcquireSlot, At, GatesInv, SlotTypes
    <3>6. ~GatesTick
      BY DEF GatesTick, At
    <3> QED  BY <3>1, <3>2, <3>3, <3>4, <3>5, <3>6 DEF GatesNext
  <2>2. ~HasRoom(gate[c].now)
    BY <2>1 DEF AcquireSlot, At, GatesInv, SlotTypes
  <2>3. gate[c].now \in Nat /\ gate[c].now <= clock
    BY <2>1 DEF AcquireSlot, GatesInv, SlotTypes, SlotInv, At
  <2>4. /\ Cardinality(Swept(gate[c].now)) \in Nat /\ Cardinality(Senders) \in Nat
        /\ Cardinality(Swept(gate[c].now))
             <= Cardinality(Senders) + Cardinality({s \in leaked : s.expiry > gate[c].now})
    BY <2>3, SendersSwept, SweptCovered
  <2>5. Cardinality({s \in leaked : s.expiry > gate[c].now}) \in Nat
    <3>1. {s \in leaked : s.expiry > gate[c].now} \in SUBSET leaked
      OBVIOUS
    <3>2. IsFiniteSet({s \in leaked : s.expiry > gate[c].now})
      BY <3>1, FS_Subset DEF GatesInv
    <3> QED  BY <3>2, FS_CardinalityType
  <2> QED
    BY <2>2, <2>4, <2>5, SlotAssumption DEF HasRoom
<1> QED
  BY <1>1, <1>2, <1>3, PTL DEF GatesSpec, RefusedAtCap
=============================================================================
