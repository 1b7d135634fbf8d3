----------------------------- MODULE RetryCycle -----------------------------
(***************************************************************************)
(* One delivery driven by the retry policy alone: attempt after attempt,   *)
(* whatever the receiver answers, until it is delivered or dead.  This is  *)
(* the sequential core of process_delivery (relay/delivery/worker.py),     *)
(* without the queues; DeliveryPipeline has those.                         *)
(***************************************************************************)
EXTENDS RetryPolicy

CONSTANTS
    Results,          \* what a POST may come back with
    Headers,          \* Retry-After headers a receiver may send
    ConfiguredMaxes   \* values of the max_attempts setting

ASSUME AnswerAssumption ==
    /\ Results \subseteq Nat
    /\ Headers \subseteq [form : {"absent", "date", "seconds", "nan"}, seconds : Int]
ASSUME MaxAssumption == ConfiguredMaxes \subseteq Nat \ {0}

VARIABLES
    configuredMax,    \* settings.max_attempts
    status,           \* the delivery row's status
    attempts,         \* the delivery row's attempt_count
    lastResult,       \* result of the latest attempt
    asked,            \* some 429 named its own delay
    waitMin, waitMax  \* shortest and longest total of the delays named so far

vars == <<configuredMax, status, attempts, lastResult, asked,
          waitMin, waitMax>>

\* The longest wait, in tenths, that can follow attempt i.
LongestWait(i) ==
    LET jittered == apply_jitter(BACKOFF_SCHEDULE[i])[2]
        capped   == 10 * RETRY_AFTER_CAP_SECONDS
    IN  IF jittered < capped THEN capped ELSE jittered

\* The longest and the shortest total wait over the first n retries.
TotalLongest[n \in 0..Len(BACKOFF_SCHEDULE)] ==
    IF n = 0 THEN 0 ELSE TotalLongest[n - 1] + LongestWait(n)
TotalShortest[n \in 0..Len(BACKOFF_SCHEDULE)] ==
    IF n = 0 THEN 0
    ELSE TotalShortest[n - 1] + apply_jitter(BACKOFF_SCHEDULE[n])[1]

Unsettled == {"pending", "delivering", "failed"}

Init ==
    /\ configuredMax \in ConfiguredMaxes
    /\ status = "pending"
    /\ attempts = 0
    /\ lastResult = NoStatus
    /\ asked = FALSE
    /\ waitMin = 0
    /\ waitMax = 0

(***************************************************************************)
(* One attempt: attempt_count is raised and committed with 'delivering',   *)
(* the POST comes back with some result and the policy decides what the    *)
(* row says next.  timedelta raises for a delay that is no number: the row *)
(* keeps its first commit, and the entry, never acknowledged, is reclaimed *)
(* for another attempt.                                                    *)
(***************************************************************************)
Attempt(result, header) ==
    LET delay == next_delay_seconds(attempts + 1, result, header, configuredMax)
    IN  /\ status \in Unsettled
        /\ attempts' = attempts + 1
        /\ lastResult' = result
        /\ \/ /\ Succeeded(result)
              /\ status' = "delivered"
              /\ UNCHANGED <<asked, waitMin, waitMax>>
           \/ /\ ~Succeeded(result)
              /\ delay = GiveUp
              /\ status' = "dead"
              /\ UNCHANGED <<asked, waitMin, waitMax>>
           \/ /\ ~Succeeded(result)
              /\ delay = NotANumber
              /\ status' = "delivering"
              /\ asked' = TRUE
              /\ UNCHANGED <<waitMin, waitMax>>
           \/ /\ ~Succeeded(result)
              /\ delay \notin {GiveUp, NotANumber}
              /\ status' = "failed"
              /\ asked' = (asked \/ delay = parse_retry_after(header))
              /\ waitMin' = waitMin + delay[1]
              /\ waitMax' = waitMax + delay[2]
        /\ UNCHANGED configuredMax

Next == \E result \in Results, header \in Headers : Attempt(result, header)

Spec == Init /\ [][Next]_vars

-----------------------------------------------------------------------------
(***************************************************************************)
(* TypeOK: the row's status and counters stay in their types.              *)
(***************************************************************************)
TypeOK ==
    /\ configuredMax \in ConfiguredMaxes
    /\ status \in Unsettled \cup {"delivered", "dead"}
    /\ attempts \in Nat
    /\ lastResult \in Results \cup {NoStatus}
    /\ asked \in BOOLEAN
    /\ waitMin \in Nat
    /\ waitMax \in Nat

(***************************************************************************)
(* BudgetSpent: a delivery is declared dead (worker.py, "attempts          *)
(* exhausted or a terminal 4xx") only when its last answer's budget is     *)
(* really spent: every configured attempt was made, unless that answer is  *)
(* a terminal 4xx, which ends it after TERMINAL_4XX_MAX_ATTEMPTS attempts  *)
(* of any kind.  The interplay of the budget with the length of            *)
(* BACKOFF_SCHEDULE is what can go wrong.                                  *)
(***************************************************************************)
BudgetSpent ==
    status = "dead" =>
        /\ attempts <= configuredMax
        /\ attempts < configuredMax =>
               /\ is_terminal_status(lastResult)
               /\ attempts >= TERMINAL_4XX_MAX_ATTEMPTS

(***************************************************************************)
(* WaitsAsScheduled: the delays next_delay_seconds names for a delivery    *)
(* add up to something between the sums of the shortest and of the longest *)
(* delays of its retries, whatever mix of errors and Retry-After headers   *)
(* the receiver sends; only a receiver that named its own delay may be     *)
(* retried sooner.                                                         *)
(***************************************************************************)
WaitsAsScheduled ==
    LET retries == IF status \in {"delivered", "dead"} THEN attempts - 1
                                                       ELSE attempts
    IN  /\ waitMax <= TotalLongest[retries]
        /\ ~asked => waitMin >= TotalShortest[retries]
=============================================================================
