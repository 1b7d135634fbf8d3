---------------------------- MODULE RateContract ----------------------------
(***************************************************************************)
(* What a tenant's rate limit promises: deliveries fill a bucket of size   *)
(* RATE that drains one per tick.  An answer is computed from a reading of *)
(* the time that is age ticks old.  A delivery is granted only when there  *)
(* is room, refused only when there was none age ticks ago, and the answer *)
(* drains the bucket of at most age ticks, a second time.  With age 0 it   *)
(* is granted exactly when there is room, and any interval of n ticks sees *)
(* at most RATE + n grants.                                                *)
(***************************************************************************)
EXTENDS Naturals

CONSTANT RATE
VARIABLES level, answer, age

Init == level = 0 /\ answer = "none" /\ age = 0

\* What is left of n deliveries once k ticks more have drained.
Drained(n, k) == IF n > k THEN n - k ELSE 0

Grant ==
    /\ level < RATE
    /\ answer' = "granted"
    /\ age' \in Nat
    /\ level' \in Drained(level + 1, age') .. (level + 1)

Refuse ==
    /\ answer' = "refused"
    /\ age' \in Nat
    /\ level + age' >= RATE
    /\ level' \in Drained(level, age') .. level

Drain == level > 0 /\ level' = level - 1 /\ UNCHANGED <<answer, age>>

Next == Grant \/ Refuse \/ Drain

Spec == Init /\ [][Next]_<<level, answer, age>>
=============================================================================
