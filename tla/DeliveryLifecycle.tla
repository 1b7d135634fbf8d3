-------------------------- MODULE DeliveryLifecycle --------------------------
(***************************************************************************)
(* What Relay promises of a delivery, seen from outside: it is accepted,   *)
(* attempted at most MAX_ATTEMPTS times, one attempt at a time, and ends   *)
(* delivered, for ever, or dead, until somebody replays it.                *)
(***************************************************************************)
EXTENDS Naturals

CONSTANTS Deliveries, MAX_ATTEMPTS
VARIABLE life       \* where each delivery stands, and its attempts so far

New     == [state |-> "absent", tries |-> 0]
Waiting == [state |-> "waiting", tries |-> 0]

Init == life = [d \in Deliveries |-> New]

\* An event is accepted with all its deliveries; dead ones are replayed.
Accept(ds, from) ==
    /\ \A d \in ds : life[d].state = from
    /\ life' = [d \in Deliveries |-> IF d \in ds THEN Waiting ELSE life[d]]

Attempt(d) ==
    /\ life[d].state = "waiting"
    /\ life[d].tries < MAX_ATTEMPTS
    /\ life' = [life EXCEPT ![d] = [state |-> "sending", tries |-> @.tries + 1]]

\* The answer settles the delivery, or leaves it to another attempt.
Conclude(d) ==
    /\ life[d].state = "sending"
    /\ \E s \in {"delivered", "dead", "waiting"} :
          /\ s = "waiting" => life[d].tries < MAX_ATTEMPTS
          /\ life' = [life EXCEPT ![d].state = s]

Next ==
    \/ \E ds \in SUBSET Deliveries, from \in {"absent", "dead"} : Accept(ds, from)
    \/ \E d \in Deliveries : Attempt(d) \/ Conclude(d)

Spec == Init /\ [][Next]_life
=============================================================================
