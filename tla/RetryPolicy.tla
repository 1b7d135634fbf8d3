---------------------------- MODULE RetryPolicy ----------------------------
(***************************************************************************)
(* The retry policy of relay/delivery/retry.py, as pure operators, with    *)
(* the part of relay/delivery/sender.py that decides what a response means.*)
(*                                                                         *)
(* A result is the HTTP status of a response, or NoStatus when the POST    *)
(* ended in a transport error.  Times are in tenths of a second, so that   *)
(* the jitter factors 0.8 and 1.2 stay exact: a delay is the interval      *)
(* <<shortest, longest>> it is drawn from, and GiveUp is Python's None,    *)
(* "no further attempt".                                                   *)
(***************************************************************************)
EXTENDS Naturals, Integers, Sequences

CONSTANTS
    TERMINAL_4XX_MAX_ATTEMPTS,   \* attempts granted to a terminal 4xx
    RETRY_AFTER_CAP_SECONDS      \* longest Retry-After that is honoured

ASSUME TerminalAssumption == TERMINAL_4XX_MAX_ATTEMPTS \in Nat \ {0}
ASSUME RetryAfterCapAssumption == RETRY_AFTER_CAP_SECONDS \in Nat

NoStatus == 0

\* Base delay, in seconds, before the attempt that follows attempt i.
BACKOFF_SCHEDULE == <<5, 30, 120, 600, 1800, 7200, 18000>>

RETRYABLE_4XX == {408, 429}

GiveUp == <<>>

Smaller(a, b) == IF a < b THEN a ELSE b

-----------------------------------------------------------------------------
\* classify_status: only a 2xx has no error class; a transport error never does.
Succeeded(result) == result \in 200..299

is_terminal_status(result) ==
    /\ result \in 400..499
    /\ result \notin RETRYABLE_4XX

\* Mutant of max_attempts_for: the terminal limit applies to every failure.
MaxAttemptsAlwaysTerminal(result, configured_max) ==
    Smaller(TERMINAL_4XX_MAX_ATTEMPTS, configured_max)

max_attempts_for(result, configured_max) ==
    IF is_terminal_status(result)
    THEN Smaller(TERMINAL_4XX_MAX_ATTEMPTS, configured_max)
    ELSE configured_max

apply_jitter(base) == <<8 * base, 12 * base>>

(***************************************************************************)
(* A Retry-After header is absent, an HTTP date, a number of seconds that  *)
(* may be negative, or "nan", which float() takes as well.  A number that  *)
(* is not negative is honoured; NaN is neither below zero nor above the    *)
(* cap, so it comes through both comparisons as itself.                    *)
(***************************************************************************)
Header(form, seconds) == [form |-> form, seconds |-> seconds]

\* The delay that is no number: there is no moment it ends at.
NotANumber == <<-1>>

\* Mutant of parse_retry_after: the cap is not applied.
RetryAfterUncapped(header) ==
    IF header.form = "seconds" /\ header.seconds >= 0
    THEN <<10 * header.seconds, 10 * header.seconds>>
    ELSE IF header.form = "nan" THEN NotANumber ELSE GiveUp

\* Mutant of parse_retry_after: a negative number is honoured.
RetryAfterNegative(header) ==
    IF header.form = "seconds"
    THEN LET honoured == 10 * Smaller(header.seconds, RETRY_AFTER_CAP_SECONDS)
         IN  <<honoured, honoured>>
    ELSE IF header.form = "nan" THEN NotANumber ELSE GiveUp

parse_retry_after(header) ==
    IF header.form = "seconds" /\ header.seconds >= 0
    THEN LET honoured == 10 * Smaller(header.seconds, RETRY_AFTER_CAP_SECONDS)
         IN  <<honoured, honoured>>
    ELSE IF header.form = "nan" THEN NotANumber ELSE GiveUp

next_delay_seconds(attempt_number, result, header, configured_max) ==
    LET explicit == IF result = 429 THEN parse_retry_after(header) ELSE GiveUp
    IN  IF attempt_number >= max_attempts_for(result, configured_max) THEN GiveUp
        ELSE IF explicit # GiveUp THEN explicit
        ELSE IF attempt_number \in DOMAIN BACKOFF_SCHEDULE
             THEN apply_jitter(BACKOFF_SCHEDULE[attempt_number])
             ELSE GiveUp
=============================================================================
