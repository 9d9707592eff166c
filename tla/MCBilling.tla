------------------------------ MODULE MCBilling ------------------------------
(* Billing for TLC: two requests, one session, two price versions.         *)
EXTENDS Billing, TLC

CONSTANTS r1, r2, s1

(* A short payload and the same payload with a larger output limit.  At    *)
(* these prices the holds are 830 and 832, under the second version 995    *)
(* and 998.                                                                *)
MCPayloads ==
    (r1 :> [chars |-> 8, bytes |-> 8, items |-> 1, max_output |-> 10]) @@
    (r2 :> [chars |-> 8, bytes |-> 12, items |-> 1, max_output |-> 20])

MCIdempotencyKey == [r \in Requests |-> NoKey]

MCPriceList ==
    <<[input |-> 200000, output |-> 200000],
      [input |-> 240000, output |-> 200000]>>

(* Estimated usage, reported usage at the bound and beyond it.             *)
MCResponses ==
    {[estimated |-> TRUE,  input |-> 0,    output |-> 3],
     [estimated |-> FALSE, input |-> 4100, output |-> 10],
     [estimated |-> FALSE, input |-> 8000, output |-> 20]}

(* Bound: no finalization is explored while the customer is frozen (the    *)
(* gateway run has them).                                                  *)
FinalizedWhileActive == admissible \/ open = {}
=============================================================================
