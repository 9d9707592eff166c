------------------------------- MODULE Pricing -------------------------------
(***************************************************************************)
(* The integer arithmetic of app/services/gateway_billing.py: what a       *)
(* request is pre-authorized for and what it costs once usage is known.    *)
(* All amounts are microUSD, prices are microUSD per million tokens.       *)
(***************************************************************************)
EXTENDS Integers

MaxOf(a, b) == IF a >= b THEN a ELSE b
MinOf(a, b) == IF a <= b THEN a ELSE b

(* What billing reads of a request: the length of its normalized JSON in   *)
(* characters and in UTF-8 bytes, its messages plus tools, and the output  *)
(* limit it was admitted with.                                             *)
Payload == [chars : Nat, bytes : Nat, items : Nat, max_output : Nat]

Price == [input : Nat, output : Nat]

(* Usage as a response reports it.  `estimated' says that it did not, and  *)
(* the input count is then taken from the request's own estimate.          *)
Response == [estimated : BOOLEAN, input : Nat, output : Nat]

estimate_tokens(chars) == MaxOf(1, (chars + 3) \div 4)

input_token_reservation_upper_bound(p) ==
    MaxOf(1, p.bytes + 4096 + 32 * p.items)

token_cost(tokens, price_per_million) ==
    IF tokens <= 0 \/ price_per_million <= 0
    THEN 0
    ELSE (tokens * price_per_million + 999999) \div 1000000

usage_cost(price, input, output) ==
    token_cost(input, price.input) + token_cost(output, price.output)

(* A seeded fault: the estimate in place of the upper bound.               *)
reserve_amount_by_estimate(price, p) ==
    MaxOf(1, usage_cost(price, estimate_tokens(p.chars), p.max_output))

reserve_amount(price, p) ==
    MaxOf(1, usage_cost(price, input_token_reservation_upper_bound(p),
                        p.max_output))

usage_from_response(response, fallback_input) ==
    [input  |-> IF response.estimated THEN fallback_input ELSE response.input,
     output |-> response.output]
=============================================================================
