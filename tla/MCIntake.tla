------------------------------- MODULE MCIntake -------------------------------
(* Small instances of Ingestion.                                             *)
EXTENDS Ingestion, TLC
CONSTANTS r1, r2, e1, e2, w1, w2, k
OneKey == r1 :> k @@ r2 :> k
=============================================================================
