------------------------------ MODULE MCIdentity ------------------------------
(* Identity for TLC: a handful of requests around one account.             *)
EXTENDS Identity, TLC

(* Requests are interchangeable, and so are the rows named after them.     *)
CallSymmetry == Permutations(Calls)
=============================================================================
