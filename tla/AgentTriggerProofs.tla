-------------------------- MODULE AgentTriggerProofs --------------------------
(***************************************************************************)
(* The budget of the trigger processes, for every number of listeners and  *)
(* endpoints, every limit and every length of the hour and the day.        *)
(***************************************************************************)
EXTENDS AgentTrigger, TLAPS

ListenerRecord ==
    [pc : {"away", "listen"} \cup Handling, ep : Endpoints \cup {None},
     at : Nat, day : Nat, used : Nat]

\* What a listener state is, field by field.
LEMMA ListenerStates ==
    ASSUME NEW v
    PROVE  v \in ListenerState <=>
             /\ v \in ListenerRecord
             /\ v.pc \in Handling <=> v.ep \in Endpoints
             /\ v.pc \in Claiming => v.day \in Days
  BY DEF ListenerState, ListenerRecord

\* The two states of a listener without a message.
LEMMA IdleStates == Away \in ListenerState /\ Listening \in ListenerState
<1>1. None \notin Endpoints
  BY BudgetAssumption
<1> QED
  BY <1>1, ListenerStates DEF Away, Listening, ListenerRecord, Handling, Claiming

\* The arithmetic of days and windows that BudgetAssumption gives.
LEMMA DayAssumption ==
    /\ DAY \in Nat /\ DAY > 0 /\ Window \in Nat /\ Window > 0 /\ PER_DAY \in Nat
    /\ VerdictMax \in Nat /\ VerdictMax < Window /\ VerdictMax <= DAY
    /\ MaxTime \in Nat /\ None \notin Nat /\ None \notin Endpoints
  BY BudgetAssumption

-----------------------------------------------------------------------------
\* The types hold at the start.
LEMMA TypeInit ==
    ASSUME Init
    PROVE  TypeOK
<1>1. lst \in [Listeners -> ListenerState]
  BY IdleStates DEF Init
<1>2. DAY \in Days
  BY DayAssumption DEF Days
<1> QED
  BY <1>1, <1>2, DayAssumption DEF Init, TypeOK, NoKey

\* A step that only moves one listener, and perhaps empties its inbox.
LEMMA ListenerMoves ==
    ASSUME TypeOK, NEW l \in Listeners, NEW v \in ListenerState, Become(l, v)
    PROVE  /\ lst' \in [Listeners -> ListenerState]
           /\ lst'[l] = v
           /\ \A k \in Listeners : k # l => lst'[k] = lst[k]
  BY DEF TypeOK, Become

\* A step keeps the types.
LEMMA TypeStep ==
    ASSUME TypeOK, [Next]_vars
    PROVE  TypeOK'
<1> USE DayAssumption DEF time
<1>1. ASSUME NEW e \in Endpoints, NEW kind \in Kinds, Publish(e, kind)
      PROVE  TypeOK'
  <2>1. [ep |-> e, kind |-> kind] \in Message
    BY DEF Message
  <2>2. \A l \in Listeners : Append(inbox[l], [ep |-> e, kind |-> kind]) \in Seq(Message)
    BY <2>1 DEF TypeOK
  <2>3. inbox' \in [Listeners -> Seq(Message)]
    BY <1>1, <2>2 DEF Publish, TypeOK
  <2>4. \A l \in Listeners : At(l, "away")' => inbox'[l] = <<>>
    BY <1>1 DEF Publish, TypeOK, At
  <2>5. spent' \in [events : Nat, faults : Nat]
    <3>1. spent \in [events : Nat, faults : Nat]
      BY DEF TypeOK
    <3>2. spent' = [spent EXCEPT !.events = @ + 1]
      BY <1>1 DEF Publish
    <3> QED  BY <3>1, <3>2
  <2> QED
    BY <1>1, <2>3, <2>4, <2>5 DEF Publish, TypeOK
<1>2. ASSUME NEW l \in Listeners, Subscribe(l) \/ EndRun(l)
      PROVE  TypeOK'
  <2>1. Become(l, Listening)
    BY <1>2 DEF Subscribe, EndRun
  <2>2. Listening.pc = "listen"
    BY DEF Listening
  <2> QED
    BY <1>2, <2>1, <2>2, ListenerMoves, IdleStates DEF TypeOK, Subscribe, EndRun, At
<1>3. ASSUME NEW l \in Listeners, Receive(l)
      PROVE  TypeOK'
  <2> DEFINE m == Head(inbox[l])
             v == [pc |-> "claim", ep |-> m.ep, at |-> 0, day |-> 0, used |-> 0]
  <2>1. m \in Message /\ Tail(inbox[l]) \in Seq(Message)
    BY <1>3 DEF Receive, TypeOK
  <2>2. v \in ListenerState
    BY <2>1, ListenerStates DEF Message, ListenerRecord, Handling, Claiming
  <2>3. inbox' \in [Listeners -> Seq(Message)]
    BY <1>3, <2>1 DEF Receive, TypeOK
  <2>4. /\ lst' \in [Listeners -> ListenerState]
        /\ \A k \in Listeners : At(k, "away")' => At(k, "away") /\ k # l
    <3>1. CASE UNCHANGED lst
      BY <1>3, <3>1 DEF TypeOK, At, Receive
    <3>2. CASE Become(l, v)
      BY <3>2, <2>2, ListenerMoves DEF At
    <3> QED  BY <1>3, <3>1, <3>2 DEF Receive
  <2>5. \A k \in Listeners : k # l => inbox'[k] = inbox[k]
    BY <1>3 DEF Receive, TypeOK
  <2> QED
    BY <1>3, <2>3, <2>4, <2>5 DEF Receive, TypeOK
<1>4. ASSUME NEW l \in Listeners, ClaimEndpoint(l)
      PROVE  TypeOK'
  <2> DEFINE e == lst[l].ep
             v == [pc |-> "count", ep |-> e, at |-> clock, day |-> midnight, used |-> 0]
  <2>1. e \in Endpoints
    BY <1>4, ListenerStates DEF ClaimEndpoint, TypeOK, At, Handling
  <2>2. midnight \in Nat
    BY DEF TypeOK, Days
  <2>3. v \in ListenerState
    BY <2>1, <2>2, ListenerStates DEF TypeOK, ListenerRecord, Handling, Claiming
  <2>4. /\ lst' \in [Listeners -> ListenerState]
        /\ \A k \in Listeners : At(k, "away")' => At(k, "away")
    <3>1. CASE Become(l, Listening)
      BY <3>1, ListenerMoves, IdleStates DEF At, Listening
    <3>2. CASE Become(l, v)
      BY <3>2, <2>3, ListenerMoves DEF At
    <3> QED  BY <1>4, <3>1, <3>2 DEF ClaimEndpoint
  <2>5. ran' \in [Endpoints -> Nat]
    BY <1>4, <2>1 DEF ClaimEndpoint, TypeOK
  <2>6. burnt' \subseteq Endpoints
    <3>1. burnt \subseteq Endpoints
      BY DEF TypeOK
    <3>2. burnt' = burnt \/ burnt' = burnt \ {e}
      BY <1>4 DEF ClaimEndpoint
    <3> QED  BY <3>1, <3>2
  <2> QED
    BY <1>4, <2>4, <2>5, <2>6 DEF ClaimEndpoint, TypeOK
<1>5. ASSUME NEW l \in Listeners, CountDay(l)
      PROVE  TypeOK'
  <2> DEFINE d == lst[l].day
             used == Incremented(d).used
             v == [pc |-> IF used = 1 THEN "expire" ELSE "verdict",
                   ep |-> lst[l].ep, at |-> lst[l].at, day |-> d, used |-> used]
  <2>1. /\ lst[l] \in ListenerRecord /\ lst[l].ep \in Endpoints /\ d \in Days
        /\ At(l, "count")
    BY <1>5, ListenerStates DEF CountDay, TypeOK, At, Handling, Claiming
  <2>2. daily[d] \in [used : Nat, expires : Nat \cup {None}]
    BY <2>1 DEF TypeOK
  <2>3. /\ Incremented(d) \in [used : Nat, expires : Nat \cup {None}]
        /\ used \in Nat
    BY <2>2 DEF Incremented
  <2>4. v \in ListenerState
    BY <2>1, <2>3, ListenerStates DEF ListenerRecord, Handling, Claiming
  <2>5. Become(l, v)
    BY <1>5 DEF CountDay
  <2>6. \A k \in Listeners : At(k, "away")' => At(k, "away")
    BY <2>4, <2>5, ListenerMoves DEF At
  <2>7. daily' \in [Days -> [used : Nat, expires : Nat \cup {None}]]
    BY <1>5, <2>1, <2>3 DEF CountDay, TypeOK
  <2>8. granted' \in [Days -> Nat]
    BY <1>5, <2>1 DEF CountDay, TypeOK
  <2> QED
    BY <1>5, <2>4, <2>5, <2>6, <2>7, <2>8, ListenerMoves DEF CountDay, TypeOK
<1>6. ASSUME NEW l \in Listeners, NEW p \in {"verdict", "run"}, lst[l].pc \in Claiming,
             Become(l, [lst[l] EXCEPT !.pc = p])
      PROVE  /\ lst' \in [Listeners -> ListenerState]
             /\ lst[l].ep \in Endpoints /\ lst[l].day \in Days /\ lst[l].at \in Nat
             /\ \A k \in Listeners : At(k, "away")' => At(k, "away")
  <2> DEFINE v == [lst[l] EXCEPT !.pc = p]
  <2>1. /\ lst[l] \in ListenerRecord /\ lst[l].ep \in Endpoints /\ lst[l].day \in Days
        /\ lst[l].at \in Nat
    BY <1>6, ListenerStates DEF TypeOK, Handling, Claiming, ListenerRecord
  <2>2. v \in ListenerState
    BY <2>1, ListenerStates DEF ListenerRecord, Handling, Claiming
  <2>3. v.pc # "away"
    BY <2>1 DEF ListenerRecord
  <2> QED
    BY <1>6, <2>1, <2>2, <2>3, ListenerMoves DEF At
<1>7. ASSUME NEW l \in Listeners, ExpireDay(l)
      PROVE  TypeOK'
  <2> DEFINE d == lst[l].day
  <2>1. /\ lst' \in [Listeners -> ListenerState] /\ d \in Days
        /\ \A k \in Listeners : At(k, "away")' => At(k, "away")
    BY <1>6, <1>7 DEF ExpireDay, At, Claiming
  <2>2. [used |-> daily[d].used, expires |-> clock + DailyTTL]
           \in [used : Nat, expires : Nat \cup {None}]
    BY <2>1 DEF TypeOK, DailyTTL
  <2>3. daily' \in [Days -> [used : Nat, expires : Nat \cup {None}]]
    BY <1>7, <2>1, <2>2 DEF ExpireDay, TypeOK
  <2> QED
    BY <1>7, <2>1, <2>3 DEF ExpireDay, TypeOK
<1>8. ASSUME NEW l \in Listeners, GiveBack(l)
      PROVE  TypeOK'
  <2>1. lst[l].ep \in Endpoints
    BY <1>8, ListenerStates DEF GiveBack, TypeOK, At, Handling, Claiming
  <2>2. /\ lst' \in [Listeners -> ListenerState]
        /\ \A k \in Listeners : At(k, "away")' => At(k, "away")
    BY <1>8, ListenerMoves, IdleStates DEF GiveBack, At, Listening
  <2>3. ran' \in [Endpoints -> Nat]
    BY <1>8, <2>1 DEF GiveBack, TypeOK
  <2> QED
    BY <1>8, <2>2, <2>3 DEF GiveBack, TypeOK
<1>9. ASSUME NEW l \in Listeners, BeginRun(l)
      PROVE  TypeOK'
  <2>1. /\ lst' \in [Listeners -> ListenerState] /\ lst[l].ep \in Endpoints
        /\ lst[l].at \in Nat
        /\ \A k \in Listeners : At(k, "away")' => At(k, "away")
    BY <1>6, <1>9 DEF BeginRun, At, Claiming
  <2>2. freeAt' \in [Endpoints -> Nat]
    BY <1>9, <2>1 DEF BeginRun, TypeOK
  <2> QED
    BY <1>9, <2>1, <2>2 DEF BeginRun, TypeOK
<1>10. ASSUME NEW l \in Listeners, Interrupted(l)
       PROVE  TypeOK'
  <2>1. lst[l].pc \in Claiming => lst[l].ep \in Endpoints
    BY ListenerStates DEF TypeOK, Handling
  <2>2. /\ lst' \in [Listeners -> ListenerState]
        /\ \A k \in Listeners : At(k, "away")' => At(k, "away") \/ k = l
    BY <1>10, ListenerMoves, IdleStates DEF Interrupted, At
  <2>3. /\ inbox' \in [Listeners -> Seq(Message)]
        /\ inbox'[l] = <<>>
        /\ \A k \in Listeners : k # l => inbox'[k] = inbox[k]
    BY <1>10 DEF Interrupted, TypeOK
  <2>4. spent' \in [events : Nat, faults : Nat]
    <3>1. spent \in [events : Nat, faults : Nat]
      BY DEF TypeOK
    <3>2. spent' = [spent EXCEPT !.faults = @ + 1]
      BY <1>10 DEF Interrupted
    <3> QED  BY <3>1, <3>2
  <2>5. burnt' \subseteq Endpoints
    <3>1. burnt \subseteq Endpoints
      BY DEF TypeOK
    <3>2. burnt' = IF lst[l].pc \in Claiming THEN burnt \cup {lst[l].ep} ELSE burnt
      BY <1>10 DEF Interrupted
    <3> QED  BY <2>1, <3>1, <3>2
  <2> QED
    BY <1>10, <2>2, <2>3, <2>4, <2>5 DEF Interrupted, TypeOK
<1>11. CASE Tick
  <2>1. clock' \in Nat /\ midnight' \in Days
    BY <1>11 DEF Tick, TypeOK, Days
  <2> QED
    BY <1>11, <2>1 DEF Tick, TypeOK, At
<1>12. CASE UNCHANGED vars
  BY <1>12 DEF vars, TypeOK, At
<1> QED
  BY <1>1, <1>2, <1>3, <1>4, <1>5, <1>7, <1>8, <1>9, <1>10, <1>11, <1>12
     DEF Next, Proceed

(***************************************************************************)
(* TypeCorrect: the listeners keep their types; nobody that is away holds  *)
(* messages, and a listener knows its endpoint exactly while it handles.   *)
(***************************************************************************)
THEOREM TypeCorrect == Spec => []TypeOK
<1>1. Init => TypeOK
  BY TypeInit
<1>2. TypeOK /\ [Next]_vars => TypeOK'
  BY TypeStep
<1> QED
  BY <1>1, <1>2, PTL DEF Spec

-----------------------------------------------------------------------------
(***************************************************************************)
(* The budget. A claim is in force until its verdict, because a verdict is *)
(* faster than the claim's window; so nobody else has claimed the endpoint *)
(* and the last run's claim had expired. A day's key outlives every claim  *)
(* that counts in it, so it counts all the claims allowed on it.           *)
(***************************************************************************)
InDay == midnight - DAY <= clock /\ clock < midnight

KeyLives ==
    \A d \in Days : daily[d].expires = None \/ d + DAY <= daily[d].expires

KeyCounts ==
    \A d \in Days : granted[d] <= daily[d].used /\ granted[d] <= PER_DAY

ClaimHolds ==
    \A l \in Listeners :
        lst[l].pc \in Claiming =>
            /\ lst[l].at <= clock /\ clock <= lst[l].at + VerdictMax
            /\ lst[l].day - DAY <= lst[l].at /\ lst[l].at < lst[l].day
            /\ ran[lst[l].ep] = lst[l].at + Window
            /\ freeAt[lst[l].ep] <= lst[l].at

ClaimAlone ==
    \A l, k \in Listeners :
        lst[l].pc \in Claiming /\ lst[k].pc \in Claiming /\ lst[l].ep = lst[k].ep => l = k

RunCovered == \A e \in Endpoints : freeAt[e] <= ran[e] \/ freeAt[e] <= clock

BudgetInv ==
    /\ TypeOK /\ InDay /\ KeyLives /\ KeyCounts
    /\ ClaimHolds /\ ClaimAlone /\ RunCovered /\ GivenBack

\* Nothing is claimed, counted or granted at the start.
LEMMA BudgetInit ==
    ASSUME Init
    PROVE  BudgetInv
<1>1. TypeOK
  BY TypeInit
<1>2. InDay
  BY DayAssumption DEF Init, InDay
<1>3. KeyLives /\ KeyCounts
  BY DayAssumption DEF Init, KeyLives, KeyCounts, NoKey
<1>4. ClaimHolds /\ ClaimAlone
  BY DEF Init, ClaimHolds, ClaimAlone, Away, Claiming
<1>5. RunCovered /\ GivenBack
  BY DEF Init, RunCovered, GivenBack, Claimed
<1> QED
  BY <1>1, <1>2, <1>3, <1>4, <1>5 DEF BudgetInv

\* What the types give for a listener with a claim.
LEMMA ClaimTypes ==
    ASSUME TypeOK, NEW l \in Listeners, lst[l].pc \in Claiming
    PROVE  /\ lst[l].ep \in Endpoints /\ lst[l].day \in Days /\ lst[l].day \in Nat
           /\ lst[l].at \in Nat /\ lst[l].used \in Nat
           /\ ran[lst[l].ep] \in Nat /\ freeAt[lst[l].ep] \in Nat
<1>1. lst[l].ep \in Endpoints /\ lst[l].day \in Days /\ lst[l] \in ListenerRecord
  BY ListenerStates DEF TypeOK, Handling
<1> QED
  BY <1>1 DEF TypeOK, ListenerRecord

\* A step that leaves the keys and the clock alone, and every claim to its holder
\* or, through burnt, to nobody.
LEMMA ClaimsKept ==
    ASSUME BudgetInv, UNCHANGED <<ran, daily, clock, midnight, granted, freeAt>>,
           \A k \in Listeners : lst'[k].pc \in Claiming =>
               /\ lst[k].pc \in Claiming
               /\ lst'[k].ep = lst[k].ep /\ lst'[k].at = lst[k].at
               /\ lst'[k].day = lst[k].day,
           \A k \in Listeners : lst[k].pc \in Claiming =>
               \/ lst'[k].pc \in Claiming /\ lst'[k].ep = lst[k].ep
               \/ lst[k].ep \in burnt',
           burnt \subseteq burnt',
           TypeOK'
    PROVE  BudgetInv'
<1>1. InDay' /\ KeyLives' /\ KeyCounts' /\ RunCovered'
  BY DEF BudgetInv, InDay, KeyLives, KeyCounts, RunCovered
<1>2. ClaimHolds'
  BY DEF BudgetInv, ClaimHolds
<1>3. ClaimAlone'
  BY DEF BudgetInv, ClaimAlone
<1>4. GivenBack'
  BY DEF BudgetInv, GivenBack, Claimed
<1> QED
  BY <1>1, <1>2, <1>3, <1>4 DEF BudgetInv

\* A step keeps the budget invariant.
LEMMA BudgetStep ==
    ASSUME BudgetInv, [Next]_vars
    PROVE  BudgetInv'
<1> USE DEF time
<1>0. TypeOK /\ TypeOK'
  BY TypeStep DEF BudgetInv
<1>1. ASSUME NEW e \in Endpoints, NEW kind \in Kinds, Publish(e, kind)
      PROVE  BudgetInv'
  BY <1>0, <1>1, ClaimsKept DEF Publish
<1>2. ASSUME NEW l \in Listeners, Subscribe(l) \/ EndRun(l)
      PROVE  BudgetInv'
  <2>1. Become(l, Listening) /\ lst[l].pc \notin Claiming
    BY <1>2 DEF Subscribe, EndRun, At, Claiming
  <2>2. Listening.pc \notin Claiming
    BY DEF Listening, Claiming
  <2>3. /\ lst'[l] = Listening
        /\ \A k \in Listeners : k # l => lst'[k] = lst[k]
    BY <1>0, <2>1, IdleStates, ListenerMoves
  <2> QED
    BY <1>0, <1>2, <2>1, <2>2, <2>3, ClaimsKept DEF Subscribe, EndRun
<1>3. ASSUME NEW l \in Listeners, Receive(l)
      PROVE  BudgetInv'
  <2>1. \A k \in Listeners : k # l => lst'[k] = lst[k]
    BY <1>0, <1>3 DEF Receive, Become, TypeOK
  <2>2. lst[l].pc \notin Claiming /\ lst'[l].pc \notin Claiming
    BY <1>0, <1>3 DEF Receive, Become, TypeOK, At, Claiming
  <2> QED
    BY <1>0, <1>3, <2>1, <2>2, ClaimsKept DEF Receive
<1>4. ASSUME NEW l \in Listeners, ClaimEndpoint(l)
      PROVE  BudgetInv'
  <2> DEFINE e == lst[l].ep
             v == [pc |-> "count", ep |-> e, at |-> clock, day |-> midnight, used |-> 0]
  <2>1. lst[l].pc \notin Claiming
    BY <1>4 DEF ClaimEndpoint, At, Claiming
  <2>2. CASE Become(l, Listening) /\ UNCHANGED <<ran, burnt>>
    <3>1. Listening.pc \notin Claiming
      BY DEF Listening, Claiming
    <3>2. /\ lst'[l] = Listening
          /\ \A k \in Listeners : k # l => lst'[k] = lst[k]
      BY <1>0, <2>2, IdleStates, ListenerMoves
    <3> QED
      BY <1>0, <1>4, <2>1, <2>2, <3>1, <3>2, ClaimsKept DEF ClaimEndpoint
  <2>3. CASE /\ ~Claimed(e)
             /\ ran' = [ran EXCEPT ![e] = clock + Window]
             /\ burnt' = burnt \ {e}
             /\ Become(l, v)
    <3>1. /\ e \in Endpoints /\ clock \in Nat /\ midnight \in Nat
          /\ ran[e] \in Nat /\ freeAt[e] \in Nat
      <4>1. e \in Endpoints
        BY <1>0, <1>4, ListenerStates DEF ClaimEndpoint, TypeOK, At, Handling
      <4> QED  BY <1>0, <4>1 DEF TypeOK, Days
    <3>2. /\ lst'[l] = v /\ v.pc \in Claiming
          /\ \A k \in Listeners : k # l => lst'[k] = lst[k]
      BY <1>0, <2>3 DEF Become, TypeOK, Claiming
    <3>3. /\ ran'[e] = clock + Window
          /\ \A f \in Endpoints : f # e => ran'[f] = ran[f]
      BY <1>0, <2>3, <3>1 DEF TypeOK
    <3>4. freeAt[e] <= clock
      BY <2>3, <3>1 DEF BudgetInv, RunCovered, Claimed
    <3>5. \A k \in Listeners : lst[k].pc \in Claiming => lst[k].ep # e
      BY <1>0, <2>3, <3>1, ClaimTypes, DayAssumption
         DEF BudgetInv, ClaimHolds, Claimed
    <3>6. ClaimHolds'
      <4>1. SUFFICES ASSUME NEW k \in Listeners, lst'[k].pc \in Claiming
                     PROVE  /\ lst'[k].at <= clock' /\ clock' <= lst'[k].at + VerdictMax
                            /\ lst'[k].day - DAY <= lst'[k].at
                            /\ lst'[k].at < lst'[k].day
                            /\ ran'[lst'[k].ep] = lst'[k].at + Window
                            /\ freeAt'[lst'[k].ep] <= lst'[k].at
        BY DEF ClaimHolds
      <4>2. CASE k = l
        BY <1>4, <3>1, <3>2, <3>3, <3>4, <4>2, DayAssumption
           DEF ClaimEndpoint, BudgetInv, InDay
      <4>3. CASE k # l
        <5>1. lst[k].pc \in Claiming /\ lst[k].ep # e /\ lst[k].ep \in Endpoints
          BY <1>0, <3>2, <3>5, <4>1, <4>3, ClaimTypes
        <5> QED
          BY <1>4, <3>2, <3>3, <4>3, <5>1 DEF ClaimEndpoint, BudgetInv, ClaimHolds
      <4> QED  BY <4>2, <4>3
    <3>7. ClaimAlone'
      BY <3>2, <3>5 DEF BudgetInv, ClaimAlone
    <3>8. RunCovered'
      BY <1>4, <3>1, <3>3, <3>4 DEF ClaimEndpoint, BudgetInv, RunCovered
    <3>9. GivenBack'
      <4>1. SUFFICES ASSUME NEW f \in Endpoints, Claimed(f)'
                     PROVE  \/ ran'[f] = freeAt'[f]
                            \/ \E k \in Listeners : lst'[k].pc \in Claiming /\ lst'[k].ep = f
                            \/ f \in burnt'
        BY DEF GivenBack
      <4>2. CASE f = e
        BY <3>2, <4>2
      <4>3. CASE f # e
        <5>1. Claimed(f)
          BY <1>4, <3>3, <4>1, <4>3 DEF Claimed, ClaimEndpoint
        <5>2. CASE ran[f] = freeAt[f]
          BY <1>4, <3>3, <4>3, <5>2 DEF ClaimEndpoint
        <5>3. CASE \E k \in Listeners : lst[k].pc \in Claiming /\ lst[k].ep = f
          BY <2>1, <3>2, <5>3
        <5>4. CASE f \in burnt
          BY <2>3, <4>3, <5>4
        <5> QED  BY <5>1, <5>2, <5>3, <5>4 DEF BudgetInv, GivenBack
      <4> QED  BY <4>2, <4>3
    <3>10. InDay' /\ KeyLives' /\ KeyCounts'
      BY <1>4 DEF ClaimEndpoint, BudgetInv, InDay, KeyLives, KeyCounts
    <3> QED
      BY <1>0, <3>6, <3>7, <3>8, <3>9, <3>10 DEF BudgetInv
  <2> QED
    BY <1>4, <2>2, <2>3 DEF ClaimEndpoint
<1>5. ASSUME NEW l \in Listeners, CountDay(l)
      PROVE  BudgetInv'
  <2> DEFINE d == lst[l].day
             used == Incremented(d).used
             v == [pc |-> IF used = 1 THEN "expire" ELSE "verdict",
                   ep |-> lst[l].ep, at |-> lst[l].at, day |-> d, used |-> used]
  <2>1. lst[l].pc \in Claiming
    BY <1>5 DEF CountDay, At, Claiming
  <2>2. /\ lst'[l] = v /\ v.pc \in Claiming
        /\ \A k \in Listeners : k # l => lst'[k] = lst[k]
    BY <1>0, <1>5 DEF CountDay, Become, TypeOK, Claiming
  <2>3. /\ d \in Days /\ d \in Nat /\ lst[l].at \in Nat /\ clock \in Nat
        /\ daily[d].used \in Nat /\ daily[d].expires \in Nat \cup {None}
        /\ granted[d] \in Nat
    BY <1>0, <2>1, ClaimTypes DEF TypeOK
  <2>4. ~(daily[d].expires # None /\ daily[d].expires <= clock)
    BY <2>1, <2>3, DayAssumption DEF BudgetInv, KeyLives, ClaimHolds
  <2>5. Incremented(d) = [used |-> daily[d].used + 1, expires |-> daily[d].expires]
    BY <2>4 DEF Incremented
  <2>6. /\ daily'[d] = Incremented(d)
        /\ granted'[d] = IF used <= PER_DAY THEN granted[d] + 1 ELSE granted[d]
        /\ \A c \in Days : c # d => daily'[c] = daily[c] /\ granted'[c] = granted[c]
    BY <1>0, <1>5, <2>3 DEF CountDay, TypeOK
  <2>7. KeyLives'
    BY <2>3, <2>5, <2>6 DEF BudgetInv, KeyLives
  <2>8. KeyCounts'
    <3>1. granted[d] <= daily[d].used /\ granted[d] <= PER_DAY
      BY <2>3 DEF BudgetInv, KeyCounts
    <3>2. granted'[d] <= daily'[d].used /\ granted'[d] <= PER_DAY
      BY <2>3, <2>5, <2>6, <3>1, DayAssumption
    <3> QED
      BY <2>6, <3>2 DEF BudgetInv, KeyCounts
  <2>9. \A k \in Listeners :
           /\ lst'[k].pc \in Claiming <=> lst[k].pc \in Claiming
           /\ lst'[k].ep = lst[k].ep /\ lst'[k].at = lst[k].at /\ lst'[k].day = lst[k].day
    BY <2>1, <2>2
  <2>10. ClaimHolds' /\ ClaimAlone'
    BY <1>5, <2>9 DEF CountDay, BudgetInv, ClaimHolds, ClaimAlone
  <2>11. InDay' /\ RunCovered'
    BY <1>5 DEF CountDay, BudgetInv, InDay, RunCovered
  <2>12. GivenBack'
    BY <1>5, <2>9 DEF CountDay, BudgetInv, GivenBack, Claimed
  <2> QED
    BY <1>0, <2>7, <2>8, <2>10, <2>11, <2>12 DEF BudgetInv
<1>6. ASSUME NEW l \in Listeners, ExpireDay(l)
      PROVE  BudgetInv'
  <2> DEFINE d == lst[l].day
  <2>1. lst[l].pc \in Claiming /\ lst[l] \in ListenerRecord
    BY <1>0, <1>6, ListenerStates DEF ExpireDay, At, Claiming, TypeOK
  <2>2. /\ lst'[l] = [lst[l] EXCEPT !.pc = "verdict"]
        /\ \A k \in Listeners : k # l => lst'[k] = lst[k]
    BY <1>0, <1>6 DEF ExpireDay, Become, TypeOK
  <2>3. \A k \in Listeners :
           /\ lst'[k].pc \in Claiming <=> lst[k].pc \in Claiming
           /\ lst'[k].ep = lst[k].ep /\ lst'[k].at = lst[k].at /\ lst'[k].day = lst[k].day
    BY <2>1, <2>2 DEF ListenerRecord, Claiming
  <2>4. /\ d \in Days /\ d \in Nat /\ lst[l].at \in Nat /\ clock \in Nat
    BY <1>0, <2>1, ClaimTypes DEF TypeOK
  <2>5. /\ daily'[d].used = daily[d].used /\ daily'[d].expires = clock + 2 * DAY
        /\ \A c \in Days : c # d => daily'[c] = daily[c]
    BY <1>0, <1>6, <2>4 DEF ExpireDay, DailyTTL, TypeOK
  <2>6. d + DAY <= clock + 2 * DAY
    BY <2>1, <2>4, DayAssumption DEF BudgetInv, ClaimHolds
  <2>7. KeyLives' /\ KeyCounts'
    BY <1>6, <2>5, <2>6 DEF ExpireDay, BudgetInv, KeyLives, KeyCounts
  <2>8. ClaimHolds' /\ ClaimAlone'
    BY <1>6, <2>3 DEF ExpireDay, BudgetInv, ClaimHolds, ClaimAlone
  <2>9. InDay' /\ RunCovered'
    BY <1>6 DEF ExpireDay, BudgetInv, InDay, RunCovered
  <2>10. GivenBack'
    BY <1>6, <2>3 DEF ExpireDay, BudgetInv, GivenBack, Claimed
  <2> QED
    BY <1>0, <2>7, <2>8, <2>9, <2>10 DEF BudgetInv
<1>7. ASSUME NEW l \in Listeners, GiveBack(l)
      PROVE  BudgetInv'
  <2> DEFINE e == lst[l].ep
  <2>1. lst[l].pc \in Claiming
    BY <1>7 DEF GiveBack, At, Claiming
  <2>2. /\ lst'[l].pc \notin Claiming
        /\ \A k \in Listeners : k # l => lst'[k] = lst[k]
    BY <1>0, <1>7 DEF GiveBack, Become, TypeOK, Listening, Claiming
  <2>3. /\ e \in Endpoints /\ freeAt[e] \in Nat /\ lst[l].at \in Nat /\ clock \in Nat
    BY <1>0, <2>1, ClaimTypes DEF TypeOK
  <2>4. /\ ran'[e] = 0
        /\ \A f \in Endpoints : f # e => ran'[f] = ran[f]
    BY <1>0, <1>7, <2>3 DEF GiveBack, TypeOK
  <2>5. freeAt[e] <= clock
    BY <2>1, <2>3 DEF BudgetInv, ClaimHolds
  <2>6. \A k \in Listeners : lst'[k].pc \in Claiming =>
           /\ k # l /\ lst[k].pc \in Claiming /\ lst[k].ep # e /\ lst[k].ep \in Endpoints
           /\ lst'[k] = lst[k]
    BY <1>0, <2>1, <2>2, ClaimTypes DEF BudgetInv, ClaimAlone
  <2>7. ClaimHolds'
    BY <1>7, <2>4, <2>6 DEF GiveBack, BudgetInv, ClaimHolds
  <2>8. ClaimAlone'
    BY <2>6 DEF BudgetInv, ClaimAlone
  <2>9. RunCovered'
    BY <1>7, <2>4, <2>5 DEF GiveBack, BudgetInv, RunCovered
  <2>10. GivenBack'
    <3>1. SUFFICES ASSUME NEW f \in Endpoints, Claimed(f)'
                   PROVE  \/ ran'[f] = freeAt'[f]
                          \/ \E k \in Listeners : lst'[k].pc \in Claiming /\ lst'[k].ep = f
                          \/ f \in burnt'
      BY DEF GivenBack
    <3>2. f # e /\ Claimed(f)
      BY <1>7, <2>3, <2>4, <3>1 DEF Claimed, GiveBack
    <3> QED
      BY <1>7, <2>2, <2>4, <3>2 DEF GiveBack, BudgetInv, GivenBack
  <2>11. InDay' /\ KeyLives' /\ KeyCounts'
    BY <1>7 DEF GiveBack, BudgetInv, InDay, KeyLives, KeyCounts
  <2> QED
    BY <1>0, <2>7, <2>8, <2>9, <2>10, <2>11 DEF BudgetInv
<1>8. ASSUME NEW l \in Listeners, BeginRun(l)
      PROVE  BudgetInv'
  <2> DEFINE e == lst[l].ep
  <2>1. lst[l].pc \in Claiming /\ lst[l] \in ListenerRecord
    BY <1>0, <1>8, ListenerStates DEF BeginRun, At, Claiming, TypeOK
  <2>2. /\ lst'[l].pc \notin Claiming
        /\ \A k \in Listeners : k # l => lst'[k] = lst[k]
    <3>1. lst' = [lst EXCEPT ![l] = [lst[l] EXCEPT !.pc = "run"]]
      BY <1>8 DEF BeginRun, Become
    <3>2. [lst[l] EXCEPT !.pc = "run"].pc = "run"
      BY <2>1 DEF ListenerRecord
    <3> QED
      BY <1>0, <3>1, <3>2 DEF TypeOK, Claiming
  <2>3. /\ e \in Endpoints /\ lst[l].at \in Nat
    BY <1>0, <2>1, ClaimTypes
  <2>4. /\ freeAt'[e] = lst[l].at + Window /\ ran'[e] = lst[l].at + Window
        /\ \A f \in Endpoints : f # e => freeAt'[f] = freeAt[f]
    BY <1>0, <1>8, <2>1, <2>3 DEF BeginRun, TypeOK, BudgetInv, ClaimHolds
  <2>5. \A k \in Listeners : lst'[k].pc \in Claiming =>
           /\ k # l /\ lst[k].pc \in Claiming /\ lst[k].ep # e /\ lst[k].ep \in Endpoints
           /\ lst'[k] = lst[k]
    BY <1>0, <2>1, <2>2, ClaimTypes DEF BudgetInv, ClaimAlone
  <2>6. ClaimHolds'
    BY <1>8, <2>4, <2>5 DEF BeginRun, BudgetInv, ClaimHolds
  <2>7. ClaimAlone'
    BY <2>5 DEF BudgetInv, ClaimAlone
  <2>8. RunCovered'
    BY <1>8, <2>3, <2>4, DayAssumption DEF BeginRun, BudgetInv, RunCovered
  <2>9. GivenBack'
    BY <1>8, <2>2, <2>4 DEF BeginRun, BudgetInv, GivenBack, Claimed
  <2>10. InDay' /\ KeyLives' /\ KeyCounts'
    BY <1>8 DEF BeginRun, BudgetInv, InDay, KeyLives, KeyCounts
  <2> QED
    BY <1>0, <2>6, <2>7, <2>8, <2>9, <2>10 DEF BudgetInv
<1>9. ASSUME NEW l \in Listeners, Interrupted(l)
      PROVE  BudgetInv'
  <2>1. /\ lst'[l].pc \notin Claiming
        /\ \A k \in Listeners : k # l => lst'[k] = lst[k]
    BY <1>0, <1>9 DEF Interrupted, Become, TypeOK, Away, Claiming
  <2>2. burnt \subseteq burnt' /\ (lst[l].pc \in Claiming => lst[l].ep \in burnt')
    BY <1>9 DEF Interrupted
  <2> QED
    BY <1>0, <1>9, <2>1, <2>2, ClaimsKept DEF Interrupted
<1>10. CASE Tick
  <2>1. clock \in Nat /\ midnight \in Nat /\ clock' = clock + 1
    BY <1>0, <1>10 DEF Tick, TypeOK, Days
  <2>2. InDay'
    BY <1>10, <2>1, DayAssumption DEF Tick, BudgetInv, InDay
  <2>3. KeyLives' /\ KeyCounts' /\ ClaimAlone'
    BY <1>10 DEF Tick, BudgetInv, KeyLives, KeyCounts, ClaimAlone
  <2>4. ClaimHolds'
    BY <1>0, <1>10, <2>1, ClaimTypes, DayAssumption DEF Tick, BudgetInv, ClaimHolds
  <2>5. RunCovered'
    BY <1>0, <1>10, <2>1 DEF Tick, TypeOK, BudgetInv, RunCovered
  <2>6. GivenBack'
    <3>1. \A e \in Endpoints : Claimed(e)' => Claimed(e)
      BY <1>0, <1>10, <2>1 DEF Tick, TypeOK, Claimed
    <3> QED
      BY <1>10, <3>1 DEF Tick, BudgetInv, GivenBack
  <2> QED
    BY <1>0, <2>2, <2>3, <2>4, <2>5, <2>6 DEF BudgetInv
<1>11. CASE UNCHANGED vars
  BY <1>0, <1>11, ClaimsKept DEF vars
<1> QED
  BY <1>1, <1>2, <1>3, <1>4, <1>5, <1>6, <1>7, <1>8, <1>9, <1>10, <1>11
     DEF Next, Proceed

\* The budget invariant holds throughout.
LEMMA BudgetCorrect == Spec => []BudgetInv
<1>1. Init => BudgetInv
  BY BudgetInit
<1>2. BudgetInv /\ [Next]_vars => BudgetInv'
  BY BudgetStep
<1> QED
  BY <1>1, <1>2, PTL DEF Spec

(***************************************************************************)
(* DailyCapCorrect: no day allows more claims than its budget (trigger.py, *)
(* claim_budget), across listeners, faults and midnight.                   *)
(***************************************************************************)
THEOREM DailyCapCorrect == Spec => []DailyCap
<1>1. BudgetInv => DailyCap
  BY DEF BudgetInv, KeyCounts, DailyCap
<1> QED
  BY <1>1, BudgetCorrect, PTL

(***************************************************************************)
(* GivenBackCorrect: a claim in force always has an owner; a refusal for   *)
(* the day leaves none behind (trigger.py, claim_budget).                  *)
(***************************************************************************)
THEOREM GivenBackCorrect == Spec => []GivenBack
<1>1. BudgetInv => GivenBack
  BY DEF BudgetInv
<1> QED
  BY <1>1, BudgetCorrect, PTL

(***************************************************************************)
(* SpacedRunsCorrect: runs of an endpoint are at least a window apart,     *)
(* measured between their claims (trigger.py, claim_budget).               *)
(***************************************************************************)
THEOREM SpacedRunsCorrect == Spec => SpacedRuns
<1>1. ASSUME BudgetInv
      PROVE  \A l \in Listeners : BeginRun(l) => lst[l].at >= freeAt[lst[l].ep]
  <2>1. SUFFICES ASSUME NEW l \in Listeners, BeginRun(l)
                 PROVE  lst[l].at >= freeAt[lst[l].ep]
    OBVIOUS
  <2>2. lst[l].pc \in Claiming
    BY <2>1 DEF BeginRun, At, Claiming
  <2> QED
    BY <1>1, <2>2, ClaimTypes DEF BudgetInv, ClaimHolds
<1>2. BudgetInv => [\A l \in Listeners : BeginRun(l) => lst[l].at >= freeAt[lst[l].ep]]_vars
  BY <1>1
<1> QED
  BY <1>2, BudgetCorrect, PTL DEF SpacedRuns
=============================================================================
