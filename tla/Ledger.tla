------------------------------- MODULE Ledger -------------------------------
(***************************************************************************)
(* The double-entry journal of app/services/ledger.py.  A journal entry    *)
(* set is a record from account names to signed amounts; an account that   *)
(* is missing, or has amount 0, gets no LedgerEntry row.  The journal      *)
(* itself is append-only (the migration's triggers refuse UPDATE and       *)
(* DELETE), so its sum per account is all that other tables can be         *)
(* compared with, and is what the model keeps.                             *)
(***************************************************************************)
EXTENDS Integers

CUSTOMER_AVAILABLE == "customer_available"
CUSTOMER_RESERVED == "customer_reserved"
PLATFORM_CLEARING == "platform_clearing"
PLATFORM_REVENUE == "platform_revenue"
PLATFORM_RISK == "platform_risk"
PLATFORM_LOSS == "platform_loss"
PLATFORM_PROVIDER_EXPENSE == "platform_provider_expense"
PLATFORM_PROVIDER_PAYABLE == "platform_provider_payable"

Accounts ==
    {CUSTOMER_AVAILABLE, CUSTOMER_RESERVED, PLATFORM_CLEARING,
     PLATFORM_REVENUE, PLATFORM_RISK, PLATFORM_LOSS,
     PLATFORM_PROVIDER_EXPENSE, PLATFORM_PROVIDER_PAYABLE}

(* The amount a set of entries books on account a.                         *)
Amount(entries, a) == IF a \in DOMAIN entries THEN entries[a] ELSE 0

(* The accounts that really get a row: zero amounts are dropped.           *)
Normalized(entries) == {a \in Accounts : Amount(entries, a) # 0}

(* The sum over the whole chart of accounts.                               *)
TotalOf(entries) ==
    Amount(entries, CUSTOMER_AVAILABLE) + Amount(entries, CUSTOMER_RESERVED)
      + Amount(entries, PLATFORM_CLEARING) + Amount(entries, PLATFORM_REVENUE)
      + Amount(entries, PLATFORM_RISK) + Amount(entries, PLATFORM_LOSS)
      + Amount(entries, PLATFORM_PROVIDER_EXPENSE)
      + Amount(entries, PLATFORM_PROVIDER_PAYABLE)

(* post_transaction refuses anything but two or more entries that cancel.  *)
Balanced(entries) ==
    /\ \E a, b \in Normalized(entries) : a # b
    /\ TotalOf(entries) = 0

(* The account sums after post_transaction has added its rows.             *)
Post(ledger, entries) ==
    [a \in Accounts |-> ledger[a] + Amount(entries, a)]

EmptyLedger == [a \in Accounts |-> 0]
=============================================================================
