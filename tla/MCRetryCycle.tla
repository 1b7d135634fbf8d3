---------------------------- MODULE MCRetryCycle ----------------------------
(* RetryCycle with the statuses the policy tells apart: a success, a       *)
(* redirect, a terminal 4xx, the two retryable ones, a server error and a  *)
(* transport error.                                                        *)
EXTENDS RetryCycle

MCResults == {NoStatus, 200, 302, 401, 408, 429, 503}
MCHeaders == {Header("absent", 0), Header("date", 0), Header("seconds", -1),
              Header("seconds", 0), Header("seconds", 20),
              Header("seconds", 90000), Header("nan", 0)}
MCConfiguredMaxes == {1, 2, 3, 5, 7, 8}
=============================================================================
