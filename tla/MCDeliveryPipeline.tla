------------------------ MODULE MCDeliveryPipeline ------------------------
(* Small instances of DeliveryPipeline.                                    *)
EXTENDS DeliveryPipeline

CONSTANTS w1, w2, r1, r2, s1, s2, s3, d1, d2, e1, e2, ev1, ev2

\* Two events for the ordered endpoint e1.
OrderedPair == [d \in {d1, d2} |-> e1]
TwoEvents == (d1 :> ev1) @@ (d2 :> ev2)

\* One event that fans out to the ordered e1 and to the unordered e2.
FanOut == (d1 :> e1) @@ (d2 :> e2)
OneEvent == [d \in {d1, d2} |-> ev1]

\* One delivery alone.
SinglePair == (d1 :> e1)
SingleEvent == (d1 :> ev1)

\* A success, a retryable error and a terminal 4xx.
AllResults == {200, 401, NoStatus}
PassOrRetry == {200, NoStatus}
NeverAnswers == {NoStatus}

\* Workers, slots and requests are interchangeable.
Symm == Permutations(Workers) \cup Permutations(Slots) \cup Permutations(Requests)
=============================================================================
