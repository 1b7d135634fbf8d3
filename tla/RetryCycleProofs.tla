-------------------------- MODULE RetryCycleProofs --------------------------
(***************************************************************************)
(* Proof that the retry policy spends exactly the budget of a delivery and *)
(* waits as long as its schedule says, for every status a receiver may     *)
(* answer, every Retry-After header, every cap and every terminal limit.   *)
(***************************************************************************)
EXTENDS RetryCycle, TLAPS

\* The setting that the schedule has a delay for: beyond it next_delay_seconds
\* gives up although attempts are left.
ScheduleCovers == ConfiguredMaxes \subseteq 1..(Len(BACKOFF_SCHEDULE) + 1)

-----------------------------------------------------------------------------
\* The schedule has seven delays.
LEMMA ScheduleFacts ==
    /\ Len(BACKOFF_SCHEDULE) = 7
    /\ DOMAIN BACKOFF_SCHEDULE = 1..7
    /\ \A i \in 1..7 : BACKOFF_SCHEDULE[i] \in Nat
  BY DEF BACKOFF_SCHEDULE

\* The longest and shortest delay of a retry are numbers.
LEMMA WaitTypes ==
    ASSUME NEW i \in 1..7
    PROVE  /\ LongestWait(i) \in Nat
           /\ apply_jitter(BACKOFF_SCHEDULE[i])[1] = 8 * BACKOFF_SCHEDULE[i]
           /\ apply_jitter(BACKOFF_SCHEDULE[i])[2] = 12 * BACKOFF_SCHEDULE[i]
           /\ 12 * BACKOFF_SCHEDULE[i] <= LongestWait(i)
           /\ 10 * RETRY_AFTER_CAP_SECONDS <= LongestWait(i)
  BY ScheduleFacts, RetryAfterCapAssumption DEF LongestWait, apply_jitter

(***************************************************************************)
(* A sum over the schedule obeys its recursive definition.  To the prover  *)
(* that is a choice among the functions that obey it: the seven partial    *)
(* sums, written out, are one.                                             *)
(***************************************************************************)
LEMMA PartialSums ==
    ASSUME NEW w, w \in [1..7 -> Nat]
    PROVE  \E f : f = [n \in 0..7 |-> IF n = 0 THEN 0 ELSE f[n - 1] + w[n]]
<1> DEFINE g == [n \in 0..7 |->
                   IF n = 0 THEN 0
                   ELSE IF n = 1 THEN w[1]
                   ELSE IF n = 2 THEN w[1] + w[2]
                   ELSE IF n = 3 THEN w[1] + w[2] + w[3]
                   ELSE IF n = 4 THEN w[1] + w[2] + w[3] + w[4]
                   ELSE IF n = 5 THEN w[1] + w[2] + w[3] + w[4] + w[5]
                   ELSE IF n = 6 THEN w[1] + w[2] + w[3] + w[4] + w[5] + w[6]
                   ELSE w[1] + w[2] + w[3] + w[4] + w[5] + w[6] + w[7]]
<1>1. ASSUME NEW n \in 0..7
      PROVE  g[n] = IF n = 0 THEN 0 ELSE g[n - 1] + w[n]
  <2>1. n \in {0, 1, 2, 3, 4, 5, 6, 7}
    OBVIOUS
  <2> QED  BY <2>1
<1>2. g = [n \in 0..7 |-> g[n]]
  OBVIOUS
<1>3. [n \in 0..7 |-> g[n]] = [n \in 0..7 |-> IF n = 0 THEN 0 ELSE g[n - 1] + w[n]]
  BY <1>1
<1> HIDE DEF g
<1>4. g = [n \in 0..7 |-> IF n = 0 THEN 0 ELSE g[n - 1] + w[n]]
  BY <1>2, <1>3
<1> QED  BY <1>4

\* The longest total wait, step by step.
LEMMA LongestUnfolds ==
    /\ TotalLongest[0] = 0
    /\ \A n \in 1..7 : TotalLongest[n] = TotalLongest[n - 1] + LongestWait(n)
<1> DEFINE w == [n \in 1..7 |-> LongestWait(n)]
           Unfolds(f) == f = [n \in 0..7 |->
                                IF n = 0 THEN 0 ELSE f[n - 1] + LongestWait(n)]
<1>1. w \in [1..7 -> Nat]
  BY WaitTypes
<1>2. PICK f : f = [n \in 0..7 |-> IF n = 0 THEN 0 ELSE f[n - 1] + w[n]]
  BY <1>1, PartialSums
<1>3. Unfolds(f)
  <2>1. [n \in 0..7 |-> IF n = 0 THEN 0 ELSE f[n - 1] + w[n]]
            = [n \in 0..7 |-> IF n = 0 THEN 0 ELSE f[n - 1] + LongestWait(n)]
    OBVIOUS
  <2> QED  BY <1>2, <2>1
<1>4. TotalLongest = CHOOSE g : Unfolds(g)
  BY ScheduleFacts DEF TotalLongest
<1> HIDE DEF Unfolds
<1>5. Unfolds(TotalLongest)
  BY <1>3, <1>4
<1> QED  BY <1>5 DEF Unfolds

\* The shortest total wait, step by step.
LEMMA ShortestUnfolds ==
    /\ TotalShortest[0] = 0
    /\ \A n \in 1..7 :
          TotalShortest[n] = TotalShortest[n - 1] + 8 * BACKOFF_SCHEDULE[n]
<1> DEFINE w == [n \in 1..7 |-> apply_jitter(BACKOFF_SCHEDULE[n])[1]]
           Unfolds(f) == f = [n \in 0..7 |->
                                IF n = 0 THEN 0
                                ELSE f[n - 1] + apply_jitter(BACKOFF_SCHEDULE[n])[1]]
<1>1. w \in [1..7 -> Nat]
  BY ScheduleFacts, WaitTypes
<1>2. PICK f : f = [n \in 0..7 |-> IF n = 0 THEN 0 ELSE f[n - 1] + w[n]]
  BY <1>1, PartialSums
<1>3. Unfolds(f)
  <2>1. [n \in 0..7 |-> IF n = 0 THEN 0 ELSE f[n - 1] + w[n]]
            = [n \in 0..7 |-> IF n = 0 THEN 0
                              ELSE f[n - 1] + apply_jitter(BACKOFF_SCHEDULE[n])[1]]
    OBVIOUS
  <2> QED  BY <1>2, <2>1
<1>4. TotalShortest = CHOOSE g : Unfolds(g)
  BY ScheduleFacts DEF TotalShortest
<1> HIDE DEF Unfolds
<1>5. Unfolds(TotalShortest)
  BY <1>3, <1>4
<1> QED  BY <1>5, WaitTypes DEF Unfolds

\* Both totals are numbers.
LEMMA TotalTypes ==
    \A n \in 0..7 : TotalLongest[n] \in Nat /\ TotalShortest[n] \in Nat
<1> DEFINE P(n) == TotalLongest[n] \in Nat /\ TotalShortest[n] \in Nat
<1>1. P(0)
  BY LongestUnfolds, ShortestUnfolds
<1>2. ASSUME NEW n \in 0..6, P(n) PROVE P(n + 1)
  <2>1. /\ n + 1 \in 1..7 /\ (n + 1) - 1 = n
        /\ 8 * BACKOFF_SCHEDULE[n + 1] \in Nat /\ LongestWait(n + 1) \in Nat
    BY ScheduleFacts, WaitTypes
  <2> QED  BY <1>2, <2>1, LongestUnfolds, ShortestUnfolds
<1> HIDE DEF P
<1>3. P(1) /\ P(2) /\ P(3) /\ P(4)
  BY <1>1, <1>2
<1>4. P(5) /\ P(6) /\ P(7)
  BY <1>2, <1>3
<1>5. \A n \in 0..7 : n \in {0, 1, 2, 3, 4, 5, 6, 7}
  OBVIOUS
<1> QED  BY <1>1, <1>3, <1>4, <1>5 DEF P

-----------------------------------------------------------------------------
(***************************************************************************)
(* What next_delay_seconds answers: it gives up exactly when the budget of *)
(* the result is spent or the schedule has run out; otherwise the delay is *)
(* the receiver's own, below the cap unless it is no number, or the        *)
(* schedule's, jittered.                                                   *)
(***************************************************************************)
LEMMA DelayFacts ==
    ASSUME NEW n \in 1..8, NEW result \in Nat, NEW header \in Headers,
           NEW max \in 1..8, NEW delay,
           delay = next_delay_seconds(n, result, header, max)
    PROVE  /\ delay = GiveUp => n >= max_attempts_for(result, max)
           /\ delay # GiveUp =>
                 /\ n \in 1..7 /\ n < max
                 /\ delay # NotANumber =>
                       /\ delay[1] \in Nat /\ delay[2] \in Nat
                       /\ delay[2] <= LongestWait(n)
                       /\ \/ delay = parse_retry_after(header)
                          \/ delay[1] = 8 * BACKOFF_SCHEDULE[n]
<1> DEFINE own == parse_retry_after(header)
           budget == max_attempts_for(result, max)
           jittered == apply_jitter(BACKOFF_SCHEDULE[n])
<1>1. budget \in 1..max
  BY TerminalAssumption DEF max_attempts_for, Smaller
<1>2. own \notin {GiveUp, NotANumber} =>
          /\ own[1] \in Nat /\ own[2] \in Nat
          /\ own[2] <= 10 * RETRY_AFTER_CAP_SECONDS
  BY AnswerAssumption, RetryAfterCapAssumption DEF parse_retry_after, Smaller
<1>3. CASE n >= budget
  <2>1. delay = GiveUp
    BY <1>3 DEF next_delay_seconds
  <2> QED  BY <1>3, <2>1
<1>4. CASE ~(n >= budget)
  <2>1. n < max /\ n \in 1..7
    BY <1>1, <1>4
  <2>2. n \in DOMAIN BACKOFF_SCHEDULE
    BY <2>1, ScheduleFacts
  <2>3. CASE result = 429 /\ own # GiveUp
    <3>1. delay = own
      BY <1>4, <2>3 DEF next_delay_seconds
    <3> QED  BY <1>2, <2>1, <2>3, <3>1, WaitTypes, RetryAfterCapAssumption
  <2>4. CASE ~(result = 429 /\ own # GiveUp)
    <3>1. delay = jittered
      BY <1>4, <2>2, <2>4 DEF next_delay_seconds
    <3>2. jittered # GiveUp
      BY DEF apply_jitter, GiveUp
    <3> QED  BY <2>1, <3>1, <3>2, WaitTypes, ScheduleFacts
  <2> QED  BY <2>3, <2>4
<1> QED  BY <1>3, <1>4

(***************************************************************************)
(* The inductive invariant: a delivery that goes on has attempts left, and *)
(* its waits are within the totals of the attempts it has made.            *)
(***************************************************************************)
Open == status \in Unsettled

CycleInv ==
    /\ TypeOK
    /\ BudgetSpent
    /\ WaitsAsScheduled
    /\ Open => attempts < configuredMax /\ attempts <= 7

\* Every attempt preserves it.
LEMMA CycleStep ==
    ASSUME ScheduleCovers, CycleInv, [Next]_vars
    PROVE  CycleInv'
<1>0. /\ configuredMax \in ConfiguredMaxes /\ configuredMax \in 1..8
      /\ attempts \in Nat /\ waitMin \in Nat /\ waitMax \in Nat
      /\ asked \in BOOLEAN
  BY ScheduleFacts DEF CycleInv, TypeOK, ScheduleCovers
<1>1. CASE UNCHANGED vars
  BY <1>1
  DEF CycleInv, vars, TypeOK, BudgetSpent, WaitsAsScheduled, Open
<1>2. ASSUME NEW result \in Results, NEW header \in Headers, Attempt(result, header)
      PROVE  CycleInv'
  <2> DEFINE n == attempts + 1
             delay == next_delay_seconds(n, result, header, configuredMax)
  <2>0. /\ Open /\ n \in 1..8 /\ n <= configuredMax /\ result \in Nat
        /\ attempts' = n /\ lastResult' = result /\ configuredMax' = configuredMax
        /\ n - 1 = attempts /\ attempts \in 0..7
    BY <1>0, <1>2, AnswerAssumption DEF Attempt, Open, CycleInv
  <2>1. /\ waitMax <= TotalLongest[attempts]
        /\ ~asked => waitMin >= TotalShortest[attempts]
    BY <2>0 DEF CycleInv, WaitsAsScheduled, Open, Unsettled
  <2>2. NotANumber # GiveUp
    BY DEF NotANumber, GiveUp
  <2>3. CASE Succeeded(result)
    <3>1. status' = "delivered" /\ UNCHANGED <<asked, waitMin, waitMax>>
      BY <1>2, <2>3 DEF Attempt
    <3> QED
      BY <1>0, <2>0, <2>1, <3>1
      DEF CycleInv, TypeOK, BudgetSpent, WaitsAsScheduled, Open, Unsettled
  <2>4. CASE ~Succeeded(result) /\ delay = GiveUp
    <3>1. status' = "dead" /\ UNCHANGED <<asked, waitMin, waitMax>>
      BY <1>2, <2>2, <2>4 DEF Attempt
    <3>2. n >= max_attempts_for(result, configuredMax)
      BY <1>0, <2>0, <2>4, DelayFacts
    <3>3. BudgetSpent'
      BY <1>0, <2>0, <3>1, <3>2, TerminalAssumption
      DEF BudgetSpent, max_attempts_for, Smaller
    <3> QED
      BY <1>0, <2>0, <2>1, <3>1, <3>3 DEF CycleInv, TypeOK, WaitsAsScheduled, Open, Unsettled
  <2>5. CASE ~Succeeded(result) /\ delay = NotANumber
    <3>1. status' = "delivering" /\ asked' = TRUE /\ UNCHANGED <<waitMin, waitMax>>
      BY <1>2, <2>2, <2>5 DEF Attempt
    <3>2. n \in 1..7 /\ n < configuredMax
      BY <1>0, <2>0, <2>2, <2>5, DelayFacts
    <3>3. /\ TotalLongest[n] = TotalLongest[attempts] + LongestWait(n)
          /\ LongestWait(n) \in Nat /\ TotalLongest[attempts] \in Nat
      BY <2>0, <3>2, LongestUnfolds, WaitTypes, TotalTypes
    <3>4. WaitsAsScheduled'
      BY <1>0, <2>0, <2>1, <3>1, <3>3 DEF WaitsAsScheduled
    <3>5. TypeOK'
      BY <1>0, <2>0, <3>1 DEF TypeOK, Unsettled
    <3> QED
      BY <2>0, <3>1, <3>2, <3>4, <3>5 DEF CycleInv, BudgetSpent, Open, Unsettled
  <2>6. CASE ~Succeeded(result) /\ delay \notin {GiveUp, NotANumber}
    <3>1. /\ status' = "failed"
          /\ asked' = (asked \/ delay = parse_retry_after(header))
          /\ waitMin' = waitMin + delay[1] /\ waitMax' = waitMax + delay[2]
      BY <1>2, <2>6 DEF Attempt
    <3>2. /\ n \in 1..7 /\ n < configuredMax
          /\ delay[1] \in Nat /\ delay[2] \in Nat /\ delay[2] <= LongestWait(n)
          /\ delay = parse_retry_after(header) \/ delay[1] = 8 * BACKOFF_SCHEDULE[n]
      BY <1>0, <2>0, <2>6, DelayFacts
    <3> HIDE DEF delay
    <3>3. /\ TotalLongest[n] = TotalLongest[attempts] + LongestWait(n)
          /\ TotalShortest[n] = TotalShortest[attempts] + 8 * BACKOFF_SCHEDULE[n]
      BY <2>0, <3>2, LongestUnfolds, ShortestUnfolds
    <3>4. /\ LongestWait(n) \in Nat /\ 8 * BACKOFF_SCHEDULE[n] \in Nat
          /\ TotalLongest[attempts] \in Nat /\ TotalShortest[attempts] \in Nat
      BY <2>0, <3>2, WaitTypes, TotalTypes, ScheduleFacts
    <3>5. waitMax' <= TotalLongest[n]
      BY <1>0, <2>1, <3>1, <3>2, <3>3, <3>4
    <3>6. ASSUME ~asked' PROVE waitMin' >= TotalShortest[n]
      <4>1. ~asked /\ delay # parse_retry_after(header)
        BY <3>1, <3>6, Zenon
      <4>2. waitMin >= TotalShortest[attempts] /\ delay[1] = 8 * BACKOFF_SCHEDULE[n]
        BY <2>1, <3>2, <4>1, Zenon
      <4> QED  BY <1>0, <3>1, <3>2, <3>3, <3>4, <4>2
    <3>7. WaitsAsScheduled'
      BY <2>0, <3>1, <3>5, <3>6 DEF WaitsAsScheduled
    <3>8. TypeOK'
      BY <1>0, <2>0, <3>1, <3>2 DEF TypeOK, Unsettled
    <3> QED
      BY <2>0, <3>1, <3>2, <3>7, <3>8 DEF CycleInv, BudgetSpent, Open, Unsettled
  <2> QED  BY <2>3, <2>4, <2>5, <2>6
<1> QED  BY <1>1, <1>2 DEF Next

\* And it holds when the delivery is accepted.
LEMMA CycleStart ==
    ASSUME ScheduleCovers, Init
    PROVE  CycleInv
<1>1. configuredMax \in 1..8
  BY ScheduleFacts DEF Init, ScheduleCovers
<1>2. TotalLongest[0] = 0 /\ TotalShortest[0] = 0
  BY LongestUnfolds, ShortestUnfolds
<1>3. TypeOK
  BY DEF Init, TypeOK, Unsettled
<1>4. WaitsAsScheduled
  BY <1>2 DEF Init, WaitsAsScheduled
<1> QED
  BY <1>1, <1>3, <1>4 DEF Init, CycleInv, BudgetSpent, Open

LEMMA CycleAlways ==
    ASSUME ScheduleCovers
    PROVE  Spec => []CycleInv
<1>1. Init => CycleInv
  BY CycleStart
<1>2. CycleInv /\ [Next]_vars => CycleInv'
  BY CycleStep
<1> QED  BY <1>1, <1>2, PTL DEF Spec

(***************************************************************************)
(* TypesCorrect: the row's status, its attempt count and its total waits   *)
(* stay in their types: no attempt (process_delivery) makes a wait         *)
(* negative or leaves a status nobody takes up.                            *)
(***************************************************************************)
THEOREM TypesCorrect ==
    ASSUME ScheduleCovers
    PROVE  Spec => []TypeOK
<1>1. CycleInv => TypeOK
  BY DEF CycleInv
<1> QED  BY <1>1, CycleAlways, PTL

(***************************************************************************)
(* BudgetSpentCorrect: process_delivery gives a delivery up only when the  *)
(* budget of its last answer is spent, for every answer, header, cap and   *)
(* limit, as long as the schedule covers the max_attempts setting.         *)
(***************************************************************************)
THEOREM BudgetSpentCorrect ==
    ASSUME ScheduleCovers
    PROVE  Spec => []BudgetSpent
<1>1. CycleInv => BudgetSpent
  BY DEF CycleInv
<1> QED  BY <1>1, CycleAlways, PTL

(***************************************************************************)
(* WaitsCorrect: the delays of next_delay_seconds add up to what the       *)
(* schedule and the cap allow, whatever the receiver answers and asks for. *)
(***************************************************************************)
THEOREM WaitsCorrect ==
    ASSUME ScheduleCovers
    PROVE  Spec => []WaitsAsScheduled
<1>1. CycleInv => WaitsAsScheduled
  BY DEF CycleInv
<1> QED  BY <1>1, CycleAlways, PTL

=============================================================================
