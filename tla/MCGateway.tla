------------------------------ MODULE MCGateway ------------------------------
(* Gateway for TLC: up to three requests and two operators.                *)
EXTENDS Gateway, TLC

CONSTANTS r1, r2, r3, o1, o2

MCPayloads ==
    [r \in Requests |-> [chars |-> 8, bytes |-> 8, items |-> 1, max_output |-> 10]]

MCSessions == Requests \cup Operators
MCIdempotencyKey == [r \in Requests |-> NoKey]

(* The client of r1 repeats it as r2, with the same Idempotency-Key.       *)
RetriedKey == [r \in Requests |-> IF r = r3 THEN NoKey ELSE "key"]

(* The two differ in nothing but their names.                              *)
RetryInterchangeable == Permutations({r1, r2})

(* The hold is 830.                                                        *)
OnePrice == <<[input |-> 200000, output |-> 200000]>>

MCResponses == {[estimated |-> FALSE, input |-> 100, output |-> 5]}
=============================================================================
