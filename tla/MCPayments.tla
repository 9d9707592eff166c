------------------------------ MODULE MCPayments ------------------------------
(* PaymentDomain for TLC: one or two orders.                               *)
EXTENDS PaymentDomain, TLC

CONSTANTS o1, o2, c1, c2

(* Two units of credit per order; a hold takes one or both of an order's.  *)
MCCreditOf == [o \in Orders |-> 2]

(* An intent that is paid in the end, or never settled.                    *)
PaidInTheEnd == {<<"none", "pending">>, <<"pending", "paid">>, <<"paid", "refunded">>}

(* All statuses are notified, or payments only.                            *)
AllWebhooks == {m[2] : m \in Moves} \X EventIds
PaidWebhooks == {"paid"} \X EventIds

(* Callers are interchangeable, and so are orders of the same credit.      *)
CallerSymmetry == Permutations(Callers)
OrderSymmetry == Permutations(Orders)
=============================================================================
