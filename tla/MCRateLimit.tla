----------------------------- MODULE MCRateLimit -----------------------------
(* RateLimit for TLC: logins from one address to two accounts.             *)
EXTENDS RateLimit, TLC

CONSTANTS a1, a2, b1, b2

(* a1 and a2 are for one account, b1 and b2 for another.                   *)
MCSubjectsOf ==
    (a1 :> <<"ip", "account a">>) @@ (a2 :> <<"ip", "account a">>) @@
    (b1 :> <<"ip", "account b">>) @@ (b2 :> <<"ip", "account b">>)

(* Requests for the same account are interchangeable.                      *)
RequestSymmetry == Permutations({a1, a2}) \cup Permutations({b1, b2})
=============================================================================
