------------------------ MODULE CircuitBreakerProofs ------------------------
(***************************************************************************)
(* Proofs about CircuitBreaker, for any number of handlers and any values  *)
(* of the thresholds and intervals.                                        *)
(***************************************************************************)
EXTENDS CircuitBreaker, FiniteSetTheorems, TLAPS

(***************************************************************************)
(* Whoever is past an open breaker was let through before it opened.       *)
(***************************************************************************)
Stragglers ==
    state = "open" =>
        \A c \in Callers : InFlight(c) => call[c].now <= last_probe_at

ProbeInv == TypeHash /\ TypeCalls /\ Stragglers /\ ProbeAlone

(***************************************************************************)
(* Letting a probe through: by then every straggler is gone, since none    *)
(* lives as long as the probe interval.                                    *)
(***************************************************************************)
LEMMA StragglersGone ==
    ASSUME ProbeInv, NEW c \in Callers, At(c, "allow"), state = "open",
           ProbeDue(call[c].now)
    PROVE  \A b \in Callers : ~InFlight(b)
<1> SUFFICES ASSUME NEW b \in Callers, InFlight(b) PROVE FALSE
  OBVIOUS
<1>1. /\ last_probe_at \in Nat /\ clock \in Nat
      /\ call[b].now \in Nat /\ call[c].now \in Nat
  BY DEF ProbeInv, TypeHash, TypeCalls, Call
<1>2. call[b].now <= last_probe_at /\ clock <= call[b].now + HandlerMax
  BY DEF ProbeInv, Stragglers, TypeCalls, InFlight, At
<1>3. call[c].now <= clock
  BY DEF ProbeInv, TypeCalls, At
<1>4. call[c].now - last_probe_at >= HALF_OPEN_PROBE_INTERVAL_SECONDS
  BY <1>1, TimeAssumption DEF ProbeDue
<1> QED
  BY <1>1, <1>2, <1>3, <1>4, TimeAssumption, ProbeAssumption

\* The hash has its times exactly when the breaker is not closed.
LEMMA HashStep ==
    ASSUME ProbeInv, [Next]_vars
    PROVE  TypeHash'
<1> USE TimeAssumption DEF ProbeInv, TypeHash
<1>1. ASSUME NEW c \in Callers, AllowRequest(c) PROVE TypeHash'
  <2>1. call[c].now \in Nat /\ call[c].now <= clock
    BY <1>1 DEF AllowRequest, TypeCalls, Call, At
  <2>2. CASE state = "open" /\ ProbeDue(call[c].now)
    <3>1. call[c].now >= last_probe_at
      BY <2>1, <2>2 DEF ProbeDue
    <3> QED  BY <1>1, <2>1, <2>2, <3>1 DEF AllowRequest
  <2>3. CASE ~(state = "open" /\ ProbeDue(call[c].now))
    BY <1>1, <2>3 DEF AllowRequest, hash
  <2> QED  BY <2>2, <2>3
<1>2. ASSUME NEW c \in Callers, RecordOutcome(c) PROVE TypeHash'
  <2> DEFINE new == NewState(call[c].ok, IF call[c].ok THEN 0 ELSE consecutive + 1)
  <2>1. new \in {"closed", "open", "half_open"} /\ (new # state => new # "half_open")
    BY DEF NewState
  <2>2. /\ state' = new /\ clock' = clock
        /\ \/ new = state /\ UNCHANGED <<opened_at, last_probe_at>>
           \/ new # state /\ new = "open" /\ opened_at' = clock /\ last_probe_at' = clock
           \/ new # state /\ new = "closed" /\ opened_at' = None /\ last_probe_at' = None
    BY <1>2 DEF RecordOutcome
  <2> HIDE DEF new
  <2> QED  BY <2>1, <2>2
<1>3. CASE Tick
  BY <1>3 DEF Tick, hash
<1>4. CASE UNCHANGED <<hash, clock>>
  BY <1>4 DEF hash
<1>5. CASE Reset
  BY <1>5 DEF Reset
<1> QED
  BY <1>1, <1>2, <1>3, <1>4, <1>5
  DEF Next, vars, hash, Start, ShouldAutoDisable, Disable, GateDefers, GatePasses,
      Send, Publish, Crash, PatchEndpoint

\* No handler is older than HandlerMax.
LEMMA CallsStep ==
    ASSUME ProbeInv, [Next]_vars
    PROVE  TypeCalls'
<1> USE TimeAssumption DEF ProbeInv, TypeCalls, Call
<1>1. clock \in Nat
  BY DEF TypeHash
<1>2. ASSUME NEW c \in Callers, Start(c) PROVE TypeCalls'
  <2> DEFINE v == [Idle EXCEPT !.pc = "allow", !.now = clock]
  <2>1. v \in Call /\ v.now = clock
    BY <1>1 DEF Idle
  <2>2. clock' = clock /\ call' = [call EXCEPT ![c] = v]
    BY <1>2 DEF Start
  <2> HIDE DEF v
  <2> QED  BY <1>1, <2>1, <2>2 DEF At
<1>3. ASSUME NEW c \in Callers, AllowRequest(c) PROVE TypeCalls'
  BY <1>1, <1>3 DEF AllowRequest, Goto, At
<1>4. ASSUME NEW c \in Callers, ShouldAutoDisable(c) PROVE TypeCalls'
  <2>1. CASE Finish(c)
    BY <1>1, <1>4, <2>1 DEF ShouldAutoDisable, Finish, Idle, At
  <2>2. CASE Goto(c, "disable")
    BY <1>1, <1>4, <2>2 DEF ShouldAutoDisable, Goto, At
  <2> QED  BY <1>4, <2>1, <2>2 DEF ShouldAutoDisable
<1>5. ASSUME NEW c \in Callers, GatePasses(c) PROVE TypeCalls'
  BY <1>1, <1>5 DEF GatePasses, Goto, At
<1>6. ASSUME NEW c \in Callers, NEW ok \in BOOLEAN, Send(c, ok) PROVE TypeCalls'
  BY <1>1, <1>6 DEF Send, At
<1>7. ASSUME NEW c \in Callers, Finish(c), clock' = clock PROVE TypeCalls'
  BY <1>1, <1>7 DEF Finish, Idle, At
<1>8. CASE Tick
  BY <1>1, <1>8 DEF Tick, At
<1>9. ASSUME NEW c \in Callers, RecordOutcome(c) PROVE TypeCalls'
  <2>1. clock' = clock /\ (Finish(c) \/ (At(c, "record") /\ Goto(c, "publish")))
    BY <1>9 DEF RecordOutcome
  <2>2. CASE At(c, "record") /\ Goto(c, "publish")
    BY <1>1, <2>1, <2>2 DEF Goto, At
  <2> QED  BY <1>7, <2>1, <2>2
<1> QED
  BY <1>2, <1>3, <1>4, <1>5, <1>6, <1>7, <1>8, <1>9
  DEF Next, vars, Disable, GateDefers, Publish, Crash, Reset, PatchEndpoint, At

\* Nobody gets past an open breaker but the probe that ends it.
LEMMA StragglersStep ==
    ASSUME ProbeInv, [Next]_vars
    PROVE  Stragglers'
<1> USE DEF ProbeInv, Stragglers, InFlight, At
<1>1. /\ call \in [Callers -> Call]
      /\ \A c \in Callers : InFlight(c) => call[c].now <= clock
      /\ \A c \in Callers : call[c].now \in Nat
  BY DEF TypeCalls, Call
<1>2. ASSUME NEW c \in Callers, AllowRequest(c) PROVE Stragglers'
  BY <1>1, <1>2 DEF AllowRequest, Goto, hash, Call
<1>3. ASSUME NEW c \in Callers, RecordOutcome(c) PROVE Stragglers'
  <2>1. /\ Finish(c) \/ Goto(c, "publish")
        /\ state' = "open" => last_probe_at' \in {last_probe_at, clock}
        /\ state' = "open" /\ last_probe_at' = last_probe_at => state = "open" \/ last_probe_at = clock
    BY <1>3 DEF RecordOutcome
  <2> QED  BY <1>1, <2>1 DEF Finish, Goto, Idle, Call
<1>4. ASSUME NEW c \in Callers, Start(c) PROVE Stragglers'
  BY <1>1, <1>4 DEF Start, Idle, hash, Call
<1>5. ASSUME NEW c \in Callers, GatePasses(c) PROVE Stragglers'
  BY <1>1, <1>5 DEF GatePasses, Goto, hash, Call
<1>6. ASSUME NEW c \in Callers, NEW ok \in BOOLEAN, Send(c, ok) PROVE Stragglers'
  BY <1>1, <1>6 DEF Send, hash, Call
<1>7. ASSUME NEW c \in Callers, ShouldAutoDisable(c) PROVE Stragglers'
  BY <1>1, <1>7 DEF ShouldAutoDisable, Goto, Finish, Idle, hash, Call
<1>8. ASSUME NEW c \in Callers, Finish(c), UNCHANGED hash PROVE Stragglers'
  BY <1>1, <1>8 DEF Finish, Idle, hash
<1> QED
  BY <1>2, <1>3, <1>4, <1>5, <1>6, <1>7, <1>8
  DEF Next, vars, hash, Disable, GateDefers, Publish, Crash, Reset, PatchEndpoint, Tick

\* A probe is let through alone, and nobody follows it.
LEMMA AloneStep ==
    ASSUME ProbeInv, [Next]_vars
    PROVE  ProbeAlone'
<1> USE DEF ProbeInv, ProbeAlone, InFlight, At
<1>1. call \in [Callers -> Call]
  BY DEF TypeCalls
<1>2. ASSUME NEW c \in Callers, AllowRequest(c) PROVE ProbeAlone'
  <2>1. CASE state = "open" /\ ProbeDue(call[c].now)
    <3>1. \A b \in Callers : ~InFlight(b)
      BY <1>2, <2>1, StragglersGone DEF AllowRequest
    <3> QED  BY <1>1, <1>2, <2>1, <3>1 DEF AllowRequest, Call
  <2>2. CASE ~(state = "open" /\ ProbeDue(call[c].now))
    BY <1>1, <1>2, <2>2 DEF AllowRequest, Goto, hash, Call
  <2> QED  BY <2>1, <2>2
<1>3. ASSUME NEW c \in Callers, RecordOutcome(c) PROVE ProbeAlone'
  <2>1. state' # "half_open"
    BY <1>3 DEF RecordOutcome, NewState, TypeHash
  <2> QED  BY <2>1
<1>4. ASSUME NEW c \in Callers, Start(c) PROVE ProbeAlone'
  BY <1>1, <1>4 DEF Start, Idle, hash, Call
<1>5. ASSUME NEW c \in Callers, GatePasses(c) PROVE ProbeAlone'
  BY <1>1, <1>5 DEF GatePasses, Goto, hash, Call
<1>6. ASSUME NEW c \in Callers, NEW ok \in BOOLEAN, Send(c, ok) PROVE ProbeAlone'
  BY <1>1, <1>6 DEF Send, hash, Call
<1>7. ASSUME NEW c \in Callers, ShouldAutoDisable(c) PROVE ProbeAlone'
  BY <1>1, <1>7 DEF ShouldAutoDisable, Goto, Finish, Idle, hash, Call
<1>8. ASSUME NEW c \in Callers, Finish(c), UNCHANGED hash PROVE ProbeAlone'
  BY <1>1, <1>8 DEF Finish, Idle, hash
<1> QED
  BY <1>2, <1>3, <1>4, <1>5, <1>6, <1>7, <1>8
  DEF Next, vars, hash, Disable, GateDefers, Publish, Crash, Reset, PatchEndpoint, Tick

(***************************************************************************)
(* ProbeAloneCorrect: for any number of handlers, thresholds and resets,   *)
(* a half-open breaker has no one past it but its probe, as long as no     *)
(* handler lives as long as the probe interval.                            *)
(***************************************************************************)
THEOREM ProbeAloneCorrect == Spec => []ProbeAlone
<1>1. Init => ProbeInv
  BY DEF Init, ProbeInv, TypeHash, TypeCalls, Stragglers, ProbeAlone, Idle, Call,
         At, InFlight
<1>2. ProbeInv /\ [Next]_vars => ProbeInv'
  BY HashStep, CallsStep, StragglersStep, AloneStep DEF ProbeInv
<1>3. ProbeInv => ProbeAlone
  BY DEF ProbeInv
<1> QED
  BY <1>1, <1>2, <1>3, PTL DEF Spec

-----------------------------------------------------------------------------
(***************************************************************************)
(* The trigger and the decision to disable.  A streak only ends in closed, *)
(* so TriggerOnce needs nothing but that whoever owes a trigger of the     *)
(* present streak has yet to publish it; the decision looks at opened_at,  *)
(* which is no earlier than downSince.                                     *)
(***************************************************************************)
StreakInv ==
    /\ consecutive \in Nat /\ owing \subseteq Callers /\ sent \in Nat /\ lost \in Nat
    /\ \A c \in owing : At(c, "publish")
    /\ TriggerOnce
DownInv == state # "closed" => downSince \in Nat /\ downSince <= opened_at

\* An outcome ends the streak, or lengthens it in a breaker that stays as it is or opens.
LEMMA Outcomes ==
    ASSUME TypeHash, consecutive \in Nat, NEW c \in Callers, RecordOutcome(c)
    PROVE  /\ At(c, "record")
           /\ \/ /\ state' = "closed" /\ consecutive' = 0
                 /\ owing' = {} /\ sent' = 0 /\ lost' = 0
                 /\ Finish(c)
              \/ /\ consecutive' = consecutive + 1
                 /\ UNCHANGED <<sent, lost>>
                 /\ state' = "closed" => /\ state = "closed"
                                         /\ consecutive' < CONSECUTIVE_FAILURE_THRESHOLD
                 /\ \/ /\ consecutive' = CONSECUTIVE_FAILURE_TRIGGER /\ state' = "closed"
                       /\ owing' = owing \cup {c} /\ Goto(c, "publish")
                    \/ /\ ~(consecutive' = CONSECUTIVE_FAILURE_TRIGGER /\ state' = "closed")
                       /\ owing' = owing /\ Finish(c)
<1> DEFINE count == IF call[c].ok THEN 0 ELSE consecutive + 1
           new == NewState(call[c].ok, count)
<1>1. /\ state' = new /\ consecutive' = count /\ At(c, "record")
      /\ \/ /\ call[c].ok
            /\ owing' = {} /\ sent' = 0 /\ lost' = 0
            /\ Finish(c)
         \/ /\ ~call[c].ok /\ Triggers(call[c].ok, count, new)
            /\ owing' = owing \cup {c}
            /\ Goto(c, "publish")
            /\ UNCHANGED <<sent, lost>>
         \/ /\ ~call[c].ok /\ ~Triggers(call[c].ok, count, new)
            /\ Finish(c)
            /\ UNCHANGED <<owing, sent, lost>>
  BY DEF RecordOutcome
<1>2. count \in Nat /\ (call[c].ok => count = 0) /\ (~call[c].ok => count = consecutive + 1)
  OBVIOUS
<1>3. call[c].ok => new = "closed"
  BY DEF NewState
<1>4. ~call[c].ok /\ new = "closed" =>
          state = "closed" /\ ~(count >= CONSECUTIVE_FAILURE_THRESHOLD)
  BY DEF NewState
<1>5. Triggers(call[c].ok, count, new) <=>
          ~call[c].ok /\ count = CONSECUTIVE_FAILURE_TRIGGER /\ new = "closed"
  BY DEF Triggers
<1> HIDE DEF new, count
<1>6. count < CONSECUTIVE_FAILURE_THRESHOLD \/ count >= CONSECUTIVE_FAILURE_THRESHOLD
  BY <1>2, ThresholdAssumption
<1> QED
  BY <1>1, <1>2, <1>3, <1>4, <1>5, <1>6

\* A step keeps the streak's triggers to one.
LEMMA StreakStep ==
    ASSUME TypeHash, TypeCalls, StreakInv, [Next]_vars
    PROVE  StreakInv'
<1> USE ThresholdAssumption
<1>1. call \in [Callers -> Call]
  BY DEF TypeCalls
<1>2. ASSUME NEW c \in Callers, RecordOutcome(c) PROVE StreakInv'
  <2>1. /\ consecutive \in Nat /\ owing \subseteq Callers /\ sent \in Nat /\ lost \in Nat
        /\ \A b \in owing : At(b, "publish")
        /\ At(c, "record")
    BY <1>2, Outcomes DEF StreakInv
  <2>2. c \notin owing
    BY <2>1 DEF At
  <2>3. CASE /\ state' = "closed" /\ consecutive' = 0
             /\ owing' = {} /\ sent' = 0 /\ lost' = 0
    BY <2>3 DEF StreakInv, TriggerOnce
  <2>4. CASE /\ consecutive' = consecutive + 1 /\ UNCHANGED <<sent, lost>>
             /\ state' = "closed" => /\ state = "closed"
                                     /\ consecutive' < CONSECUTIVE_FAILURE_THRESHOLD
             /\ consecutive' = CONSECUTIVE_FAILURE_TRIGGER /\ state' = "closed"
             /\ owing' = owing \cup {c} /\ Goto(c, "publish")
    <3>1. owing = {} /\ sent + lost = 0
      BY <2>1, <2>4 DEF StreakInv, TriggerOnce
    <3>2. owing' = {c} /\ At(c, "publish")'
      BY <1>1, <2>4, <3>1 DEF Goto, At, Call
    <3> QED  BY <2>1, <2>4, <3>1, <3>2 DEF StreakInv, TriggerOnce
  <2>5. CASE /\ consecutive' = consecutive + 1 /\ UNCHANGED <<sent, lost>>
             /\ state' = "closed" => /\ state = "closed"
                                     /\ consecutive' < CONSECUTIVE_FAILURE_THRESHOLD
             /\ ~(consecutive' = CONSECUTIVE_FAILURE_TRIGGER /\ state' = "closed")
             /\ owing' = owing /\ Finish(c)
    <3>1. \A b \in owing : At(b, "publish")'
      BY <1>1, <2>1, <2>2, <2>5 DEF Finish, At
    <3>2. TriggerOnce'
      <4> SUFFICES ASSUME state' = "closed" PROVE TriggerOnce'
        BY DEF TriggerOnce
      <4>1. CASE consecutive < CONSECUTIVE_FAILURE_TRIGGER
        <5>1. owing = {} /\ sent + lost = 0 /\ consecutive' < CONSECUTIVE_FAILURE_TRIGGER
          BY <2>1, <2>5, <4>1 DEF StreakInv, TriggerOnce
        <5> QED  BY <2>5, <5>1 DEF TriggerOnce
      <4>2. CASE consecutive >= CONSECUTIVE_FAILURE_TRIGGER
        <5>1. consecutive' >= CONSECUTIVE_FAILURE_TRIGGER
          BY <2>1, <2>5, <4>2
        <5>2. \/ owing = {} /\ sent + lost = 1
              \/ (\E b \in Callers : owing = {b}) /\ sent + lost = 0
          BY <2>1, <2>5, <4>2 DEF StreakInv, TriggerOnce
        <5> QED  BY <2>5, <3>1, <5>1, <5>2 DEF TriggerOnce
      <4> QED  BY <2>1, <4>1, <4>2
    <3> QED  BY <2>1, <2>5, <3>1, <3>2 DEF StreakInv
  <2> QED  BY <1>2, <2>1, <2>3, <2>4, <2>5, Outcomes
<1>3. ASSUME NEW c \in Callers, Finish(c), UNCHANGED <<state, consecutive>>,
             owing' = owing \ {c},
             \/ /\ c \in owing
                /\ \/ sent' = sent + 1 /\ lost' = lost
                   \/ sent' = sent /\ lost' = lost + 1
             \/ c \notin owing /\ UNCHANGED <<sent, lost>>
      PROVE  StreakInv'
  <2>1. /\ consecutive \in Nat /\ owing \subseteq Callers /\ sent \in Nat /\ lost \in Nat
        /\ \A b \in owing : At(b, "publish")
    BY DEF StreakInv
  <2>2. \A b \in owing' : At(b, "publish")'
    BY <1>1, <1>3, <2>1 DEF Finish, At
  <2>3. TriggerOnce'
    <3>1. CASE c \notin owing
      <4>1. owing' = owing
        BY <1>3, <3>1
      <4> QED  BY <1>3, <2>1, <2>2, <3>1, <4>1 DEF StreakInv, TriggerOnce
    <3>2. CASE c \in owing
      <4>1. state = "closed" => /\ consecutive < CONSECUTIVE_FAILURE_THRESHOLD
                                /\ consecutive >= CONSECUTIVE_FAILURE_TRIGGER
                                /\ owing = {c} /\ sent + lost = 0
        BY <3>2 DEF StreakInv, TriggerOnce
      <4>2. state = "closed" => sent' + lost' = 1
        BY <1>3, <2>1, <3>2, <4>1
      <4> QED  BY <1>3, <4>1, <4>2 DEF TriggerOnce
    <3> QED  BY <3>1, <3>2
  <2> QED  BY <1>3, <2>1, <2>2, <2>3 DEF StreakInv
<1>4. ASSUME NEW c \in Callers, Publish(c) PROVE StreakInv'
  BY <1>3, <1>4 DEF Publish, hash
<1>5. ASSUME NEW c \in Callers, Crash(c) PROVE StreakInv'
  BY <1>3, <1>5 DEF Crash, hash
<1>6. CASE Reset
  BY <1>6 DEF Reset, StreakInv, TriggerOnce
<1>7. ASSUME UNCHANGED <<consecutive, owing, sent, lost>>,
             state' = "closed" => state = "closed",
             \A b \in Callers : At(b, "publish") => At(b, "publish")'
      PROVE  StreakInv'
  BY <1>7 DEF StreakInv, TriggerOnce
<1>8. ASSUME NEW c \in Callers,
             \/ Start(c) \/ AllowRequest(c) \/ ShouldAutoDisable(c) \/ Disable(c)
             \/ GateDefers(c) \/ GatePasses(c) \/ \E ok \in BOOLEAN : Send(c, ok)
      PROVE  /\ UNCHANGED <<consecutive, owing, sent, lost>>
             /\ state' = "closed" => state = "closed"
             /\ \A b \in Callers : At(b, "publish") => At(b, "publish")'
  <2>1. UNCHANGED <<consecutive, owing, sent, lost>> /\ (state' = "closed" => state = "closed")
    BY <1>8 DEF Start, AllowRequest, ShouldAutoDisable, Disable, GateDefers, GatePasses,
                Send, hash, history
  <2>2. ~At(c, "publish") /\ \A b \in Callers \ {c} : call'[b] = call[b]
    BY <1>1, <1>8 DEF Start, AllowRequest, ShouldAutoDisable, Disable, GateDefers,
                      GatePasses, Send, Goto, Finish, At
  <2> QED  BY <2>1, <2>2 DEF At
<1>9. CASE UNCHANGED vars \/ PatchEndpoint \/ Tick
  BY <1>7, <1>9 DEF vars, PatchEndpoint, Tick, hash, history, At
<1> QED
  BY <1>2, <1>4, <1>5, <1>6, <1>7, <1>8, <1>9 DEF Next

\* A breaker that is not closed left 'closed' no later than it was opened last.
LEMMA DownStep ==
    ASSUME TypeHash, DownInv, [Next]_vars
    PROVE  DownInv'
<1> USE TimeAssumption DEF TypeHash, DownInv
<1>1. ASSUME NEW c \in Callers, RecordOutcome(c) PROVE DownInv'
  <2> DEFINE new == NewState(call[c].ok, IF call[c].ok THEN 0 ELSE consecutive + 1)
  <2>1. /\ state' = new /\ clock' = clock
        /\ \/ new = state /\ UNCHANGED <<opened_at, downSince>>
           \/ /\ new # state /\ new = "open" /\ opened_at' = clock
              /\ downSince' = IF state = "closed" THEN clock ELSE downSince
           \/ new # state /\ new = "closed"
    BY <1>1 DEF RecordOutcome
  <2> HIDE DEF new
  <2> QED  BY <2>1
<1>2. ASSUME NEW c \in Callers, AllowRequest(c) PROVE DownInv'
  BY <1>2 DEF AllowRequest, hash, history
<1>3. CASE Reset
  BY <1>3 DEF Reset
<1>4. CASE UNCHANGED <<state, opened_at, downSince>>
  BY <1>4
<1> QED
  BY <1>1, <1>2, <1>3, <1>4
  DEF Next, vars, hash, history, Start, ShouldAutoDisable, Disable, GateDefers,
      GatePasses, Send, Publish, Crash, PatchEndpoint, Tick

(***************************************************************************)
(* TriggerOnceCorrect: for any thresholds and any number of handlers,      *)
(* crashes and resets, a streak that reaches the trigger in a closed       *)
(* breaker has one trigger, published at most once and lost only with the  *)
(* handler that saw the crossing in record_outcome; a shorter streak has   *)
(* none.                                                                   *)
(***************************************************************************)
THEOREM TriggerOnceCorrect == Spec => []TriggerOnce
<1>1. Init => ProbeInv /\ StreakInv
  <2>1. Init => ProbeInv
    BY DEF Init, ProbeInv, TypeHash, TypeCalls, Stragglers, ProbeAlone, Idle, Call,
           At, InFlight
  <2>2. Init => StreakInv
    BY ThresholdAssumption DEF Init, StreakInv, TriggerOnce
  <2> QED  BY <2>1, <2>2
<1>2. ProbeInv /\ StreakInv /\ [Next]_vars => ProbeInv' /\ StreakInv'
  BY HashStep, CallsStep, StragglersStep, AloneStep, StreakStep DEF ProbeInv
<1>3. StreakInv => TriggerOnce
  BY DEF StreakInv
<1> QED
  BY <1>1, <1>2, <1>3, PTL DEF Spec

(***************************************************************************)
(* DisableDecisionCorrect: whatever happens to the breaker between the     *)
(* denial of a handler and its second look at the hash, it decides to      *)
(* disable the endpoint only when the breaker has been away from 'closed'  *)
(* for the limit.                                                          *)
(***************************************************************************)
THEOREM DisableDecisionCorrect == Spec => DisableDecision
<1> DEFINE Decision == \A c \in Callers :
               call[c].pc = "check" /\ call'[c].pc = "disable" =>
                   /\ downSince # None
                   /\ call[c].now - downSince >= AUTO_DISABLE_AFTER_SECONDS
<1>1. Init => ProbeInv /\ DownInv
  BY DEF Init, ProbeInv, TypeHash, TypeCalls, Stragglers, ProbeAlone, Idle, Call,
         At, InFlight, DownInv
<1>2. ProbeInv /\ DownInv /\ [Next]_vars => ProbeInv' /\ DownInv'
  BY HashStep, CallsStep, StragglersStep, AloneStep, DownStep DEF ProbeInv
<1>3. ProbeInv /\ DownInv /\ [Next]_vars => [Decision]_vars
  <2> SUFFICES ASSUME ProbeInv, DownInv, [Next]_vars, NEW c \in Callers,
                      call[c].pc = "check", call'[c].pc = "disable"
               PROVE  /\ downSince # None
                      /\ call[c].now - downSince >= AUTO_DISABLE_AFTER_SECONDS
    OBVIOUS
  <2>1. call \in [Callers -> Call] /\ call[c].now \in Nat
    BY DEF ProbeInv, TypeCalls, Call
  <2>2. ShouldAutoDisable(c)
    <3> USE <2>1 DEF At, Call
    <3>1. ASSUME NEW b \in Callers, ShouldAutoDisable(b) PROVE b = c
      BY <3>1 DEF ShouldAutoDisable, Goto, Finish, Idle
    <3>2. ASSUME NEW b \in Callers,
                 Start(b) \/ AllowRequest(b) \/ GatePasses(b) \/ \E ok \in BOOLEAN : Send(b, ok)
          PROVE  FALSE
      BY <3>2 DEF Start, AllowRequest, GatePasses, Send, Goto, Idle
    <3>3. ASSUME NEW b \in Callers, Finish(b) PROVE FALSE
      BY <3>3 DEF Finish, Idle
    <3>4. UNCHANGED call => FALSE
      OBVIOUS
    <3>5. ASSUME NEW b \in Callers, RecordOutcome(b) PROVE FALSE
      <4>1. Finish(b) \/ Goto(b, "publish")
        BY <3>5 DEF RecordOutcome
      <4> QED  BY <3>3, <4>1 DEF Goto
    <3> QED
      BY <3>1, <3>2, <3>3, <3>4, <3>5
      DEF Next, vars, Disable, GateDefers, Publish, Crash, Reset, PatchEndpoint, Tick
  <2>3. /\ state # "closed" /\ opened_at # None
        /\ call[c].now - opened_at >= AUTO_DISABLE_AFTER_SECONDS
    BY <2>1, <2>2 DEF ShouldAutoDisable, Finish, Idle
  <2>4. downSince \in Nat /\ opened_at \in Nat /\ downSince <= opened_at
    BY <2>3 DEF DownInv, ProbeInv, TypeHash
  <2> QED  BY <2>1, <2>3, <2>4, TimeAssumption
<1> QED
  BY <1>1, <1>2, <1>3, PTL DEF Spec, DisableDecision

-----------------------------------------------------------------------------
(***************************************************************************)
(* The sliding window.  Opening takes as many outcomes as the smaller of   *)
(* the two thresholds, and while fewer were recorded since the breaker was *)
(* closed anew neither the streak nor the window is longer than that.      *)
(***************************************************************************)
Outcome == [at : Nat, ok : BOOLEAN]

WindowInv ==
    /\ window \in Seq(Outcome) /\ consecutive \in Nat
    /\ seen \in 0..Enough
    /\ state = "closed" /\ seen < Enough => /\ consecutive <= seen
                                           /\ Len(window) <= seen

\* Enough is the smaller threshold.
LEMMA EnoughFacts ==
    /\ Enough \in Nat \ {0}
    /\ Enough <= CONSECUTIVE_FAILURE_THRESHOLD /\ Enough <= WINDOW_MIN_ATTEMPTS
  BY ThresholdAssumption DEF Enough

\* Recording trims the window and adds one outcome to it.
LEMMA RecordedFacts ==
    ASSUME window \in Seq(Outcome), clock \in Nat, NEW ok \in BOOLEAN
    PROVE  Recorded(ok) \in Seq(Outcome) /\ Len(Recorded(ok)) <= Len(window) + 1
<1> DEFINE old == {i \in DOMAIN window : window[i].at <= clock - WINDOW_SECONDS}
           kept == SubSeq(window, Expired + 1, Len(window))
           x == [at |-> clock, ok |-> ok]
<1>1. DOMAIN window = 1..Len(window) /\ Len(window) \in Nat
  OBVIOUS
<1>2. IsFiniteSet(1..Len(window))
  BY <1>1, FS_Interval
<1>3. old \subseteq 1..Len(window)
  BY <1>1
<1> HIDE DEF old
<1>4. Cardinality(old) \in Nat
  BY <1>2, <1>3, FS_Subset, FS_CardinalityType
<1>5. Expired = Cardinality(old)
  BY DEF Expired, old
<1>6. kept \in Seq(Outcome) /\ Len(kept) <= Len(window)
  <2>1. \A i \in (Expired + 1)..Len(window) : window[i] \in Outcome
    BY <1>1, <1>4, <1>5
  <2>2. kept \in Seq(Outcome)
    BY <1>1, <1>4, <1>5, <2>1
  <2>3. Len(kept) = IF Expired + 1 <= Len(window) THEN Len(window) - Expired ELSE 0
    BY <1>1, <1>4, <1>5
  <2> QED  BY <1>1, <1>4, <1>5, <2>2, <2>3
<1>7. x \in Outcome
  BY DEF Outcome
<1>8. Recorded(ok) = Append(kept, x)
  BY DEF Recorded
<1> HIDE DEF kept, x
<1> QED  BY <1>6, <1>7, <1>8

\* A step keeps the count, and opens the breaker only when it is reached.
LEMMA WindowStep ==
    ASSUME TypeHash, TypeCalls, WindowInv, [Next]_vars
    PROVE  /\ WindowInv'
           /\ state = "closed" /\ state' # "closed" => seen' = Enough
<1> DEFINE Goal == /\ WindowInv'
                   /\ state = "closed" /\ state' # "closed" => seen' = Enough
<1> USE EnoughFacts
<1>1. ASSUME NEW c \in Callers, RecordOutcome(c) PROVE Goal
  <2> DEFINE ok == call[c].ok
             count == IF ok THEN 0 ELSE consecutive + 1
             new == NewState(ok, count)
             w == Recorded(ok)
  <2>1. /\ ok \in BOOLEAN /\ count \in Nat /\ count <= consecutive + 1
        /\ consecutive \in Nat /\ Len(window) \in Nat
    BY DEF TypeCalls, Call, WindowInv
  <2>2. w \in Seq(Outcome) /\ Len(w) \in Nat /\ Len(w) <= Len(window) + 1
    BY <2>1, RecordedFacts DEF WindowInv, TypeHash
  <2>3. /\ state' = new /\ consecutive' = count /\ window' = NewWindow(ok, new)
        /\ \/ new = state /\ seen' = OneMore
           \/ new # state /\ new = "open" /\ seen' = OneMore
           \/ new # state /\ new = "closed" /\ seen' = 0
    BY <1>1 DEF RecordOutcome
  <2>4. /\ new = "closed" /\ state # "closed" => count = 0
        /\ state = "closed" /\ new # "closed" =>
              \/ count >= CONSECUTIVE_FAILURE_THRESHOLD
              \/ Len(w) >= WINDOW_MIN_ATTEMPTS
    BY DEF NewState, RateTripped
  <2>5. window' = IF new = "closed" /\ state # "closed" THEN <<>> ELSE w
    BY <2>3 DEF NewWindow
  <2> HIDE DEF ok, count, new, w
  <2>6. CASE new = "closed" /\ state # "closed"
    <3>1. window' = <<>> /\ <<>> \in Seq(Outcome) /\ Len(<<>>) = 0
      BY <2>5, <2>6
    <3>2. consecutive' = 0 /\ seen' = 0 /\ state' = "closed"
      BY <2>3, <2>4, <2>6
    <3> QED  BY <2>6, <3>1, <3>2 DEF WindowInv
  <2>7. CASE ~(new = "closed" /\ state # "closed")
    <3>1. window' = w /\ seen' = OneMore /\ consecutive' = count /\ state' = new
      BY <2>3, <2>5, <2>7
    <3>2. seen \in Nat /\ seen' \in 0..Enough
      BY <3>1 DEF OneMore, WindowInv
    <3>3. ASSUME state = "closed", seen < Enough
          PROVE  seen' = seen + 1 /\ count <= seen' /\ Len(w) <= seen'
      BY <2>1, <2>2, <3>1, <3>2, <3>3 DEF OneMore, WindowInv
    <3>4. ASSUME state = "closed", ~(seen < Enough) PROVE seen' = Enough
      BY <3>1, <3>2, <3>4 DEF OneMore, WindowInv
    <3>5. state = "closed" /\ new # "closed" => seen' = Enough
      BY <2>1, <2>2, <2>4, <3>2, <3>3, <3>4, ThresholdAssumption
    <3>6. state' = "closed" /\ seen' < Enough => /\ consecutive' <= seen'
                                                /\ Len(window') <= seen'
      BY <2>7, <3>1, <3>2, <3>3, <3>4
    <3> QED  BY <2>1, <2>2, <3>1, <3>2, <3>5, <3>6 DEF WindowInv
  <2> QED  BY <2>6, <2>7
<1>2. CASE Reset
  <2>1. window' = <<>> /\ consecutive' = 0 /\ seen' = 0 /\ state' = "closed"
        /\ <<>> \in Seq(Outcome) /\ Len(<<>>) = 0
    BY <1>2 DEF Reset
  <2> QED  BY <2>1 DEF WindowInv
<1>3. ASSUME NEW c \in Callers, AllowRequest(c) PROVE Goal
  <2>1. /\ UNCHANGED <<window, consecutive, seen>>
        /\ state' = state \/ (state = "open" /\ state' = "half_open")
    BY <1>3 DEF AllowRequest, hash, history
  <2> QED  BY <2>1 DEF WindowInv
<1>4. CASE UNCHANGED <<window, consecutive, seen, state>>
  BY <1>4 DEF WindowInv
<1> QED
  BY <1>1, <1>2, <1>3, <1>4
  DEF Next, vars, hash, history, Start, ShouldAutoDisable, Disable, GateDefers,
      GatePasses, Send, Publish, Crash, PatchEndpoint, Tick

LEMMA WindowInit == Init => ProbeInv /\ WindowInv
<1>1. Init => ProbeInv
  BY DEF Init, ProbeInv, TypeHash, TypeCalls, Stragglers, ProbeAlone, Idle, Call,
         At, InFlight
<1>2. ASSUME Init PROVE WindowInv
  <2>1. <<>> \in Seq(Outcome) /\ Len(<<>>) = 0
    OBVIOUS
  <2> QED  BY <1>2, <2>1, EnoughFacts DEF Init, WindowInv
<1> QED  BY <1>1, <1>2

LEMMA WindowAlways ==
    ProbeInv /\ WindowInv /\ [Next]_vars => ProbeInv' /\ WindowInv'
  BY HashStep, CallsStep, StragglersStep, AloneStep, WindowStep DEF ProbeInv

(***************************************************************************)
(* NoInstantRetripCorrect: RECORD_OUTCOME_LUA opens a closed breaker only  *)
(* on enough outcomes recorded since it was closed anew, whatever          *)
(* stragglers, resets and crashes come in between: closing clears the      *)
(* streak and the window together.                                         *)
(***************************************************************************)
THEOREM NoInstantRetripCorrect == Spec => NoInstantRetrip
<1> DEFINE Opens == state = "closed" /\ state' # "closed" => seen' = Enough
<1>1. ProbeInv /\ WindowInv /\ [Next]_vars => [Opens]_vars
  BY WindowStep DEF ProbeInv
<1> QED
  BY <1>1, WindowInit, WindowAlways, PTL DEF Spec, NoInstantRetrip

\* The history variables have their types.
HistoryTypes ==
    /\ active \in BOOLEAN
    /\ spent \in [faults : Nat, resets : Nat, patches : Nat]
    /\ downSince \in Nat \cup {None}
    /\ owing \subseteq Callers
    /\ sent \in Nat /\ lost \in Nat

LEMMA HistoryStep ==
    ASSUME TypeHash, HistoryTypes, [Next]_vars
    PROVE  HistoryTypes'
<1> USE DEF HistoryTypes
<1>0. clock \in Nat
  BY DEF TypeHash
<1>1. ASSUME NEW c \in Callers, RecordOutcome(c) PROVE HistoryTypes'
  <2>1. /\ UNCHANGED <<active, spent>>
        /\ owing' \in {{}, owing, owing \cup {c}}
        /\ sent' \in {0, sent} /\ lost' \in {0, lost}
        /\ downSince' \in {downSince, clock, None}
    BY <1>1 DEF RecordOutcome
  <2> QED  BY <1>0, <2>1
<1>2. CASE Reset
  BY <1>2 DEF Reset
<1>3. CASE PatchEndpoint
  BY <1>3 DEF PatchEndpoint, history
<1>4. ASSUME NEW c \in Callers, Crash(c) PROVE HistoryTypes'
  BY <1>4 DEF Crash
<1>5. ASSUME NEW c \in Callers, Disable(c) PROVE HistoryTypes'
  BY <1>5 DEF Disable, history
<1>6. CASE UNCHANGED <<active, spent, history>>
  BY <1>6 DEF history
<1>7. ASSUME NEW c \in Callers, Publish(c) PROVE HistoryTypes'
  BY <1>7 DEF Publish
<1> QED
  BY <1>1, <1>2, <1>3, <1>4, <1>5, <1>6, <1>7
  DEF Next, vars, history, Start, AllowRequest, ShouldAutoDisable, GateDefers,
      GatePasses, Send, Tick

(***************************************************************************)
(* TypeCorrect: the breaker hash has opened_at and last_probe_at exactly   *)
(* when it is not closed, in order and not in the future (the HSET and     *)
(* HDEL of RECORD_OUTCOME_LUA and ALLOW_REQUEST_LUA), and everything else  *)
(* stays in its type.                                                      *)
(***************************************************************************)
THEOREM TypeCorrect == Spec => []TypeOK
<1>1. Init => HistoryTypes
  BY DEF Init, HistoryTypes
<1>2. ProbeInv /\ HistoryTypes /\ [Next]_vars => HistoryTypes'
  BY HistoryStep DEF ProbeInv
<1>3. ProbeInv /\ WindowInv /\ HistoryTypes => TypeOK
  BY EnoughFacts DEF ProbeInv, WindowInv, HistoryTypes, TypeOK, Outcome
<1> QED
  BY <1>1, <1>2, <1>3, WindowInit, WindowAlways, PTL DEF Spec
=============================================================================
