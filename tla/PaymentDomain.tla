---------------------------- MODULE PaymentDomain ----------------------------
(***************************************************************************)
(* Live payments of one customer: the durable transitions of               *)
(* app/services/payment_domain.py and the routes of app/__init__.py that   *)
(* call the payment provider between two of them.                          *)
(*                                                                         *)
(* Granularity.  Each method of PaymentDomainService locks the order (and  *)
(* user and wallet) rows it changes or guards its UPDATE with the status   *)
(* it has read, so it is one action.  A route that calls the provider is   *)
(* three: claim and commit, the provider's answer, and the transaction     *)
(* that applies it; anything may happen in between, and the process may    *)
(* die there.  `call' holds the routes that are between claim and apply.   *)
(*                                                                         *)
(* The provider (external) has one payment intent per order, created by    *)
(* the checkout call, however late it arrives there.  Its webhooks are     *)
(* true of the intent's past, and are otherwise delivered at any time, in  *)
(* any order, any number of times.                                         *)
(*                                                                         *)
(* Left out: amounts and transaction ids that contradict the order (they   *)
(* are refused before anything is written), risk reasons, audit rows and   *)
(* outbox rows.  As in Billing, an operator named after another with a     *)
(* suffix, right before it, is a seeded fault.                             *)
(***************************************************************************)
EXTENDS Integers, FiniteSets, Functions, Ledger

CONSTANTS
    Orders,         \* orders, one per client Idempotency-Key
    CreditOf,       \* credit_amount_microusd of each order
    Callers,        \* concurrent requests to routes that call the provider
    RefundKeys,     \* idempotency keys operators send with refund commands
    WebhookKey,     \* the key of a refund that a webhook started
    EventIds,       \* webhook event ids the provider uses
    Webhooks,       \* bound: the <<status, event id>> notifications it sends
    ReconcileId,    \* the event id a reconciliation derives from the answer
    MaxOpenOrders,  \* settings.max_open_checkout_orders
    HoldAmounts,    \* model request holds explored
    ProviderMoves   \* bound: the moves of a payment intent explored

(* A payment intent (external): what it can become.                        *)
Moves ==
    {<<"none", "pending">>, <<"pending", "paid">>, <<"pending", "failed">>,
     <<"pending", "closed">>, <<"paid", "refunded">>}

ASSUME PaymentAssumption ==
    /\ IsFiniteSet(Orders)
    /\ CreditOf \in [Orders -> Nat \ {0}]
    /\ MaxOpenOrders \in Nat \ {0}
    /\ HoldAmounts \subseteq Nat \ {0}
    /\ ReconcileId \notin EventIds
    /\ WebhookKey \notin RefundKeys
    /\ Webhooks \subseteq {m[2] : m \in Moves} \X EventIds
    /\ ProviderMoves \subseteq Moves

VARIABLES
    user,         \* users.status
    wallet,       \* [balance, reserved]
    ledger,       \* journal sums per account
    order,        \* payment_orders rows
    refund,       \* payment_refunds rows, at most one per order
    outstanding,  \* what PLATFORM_RISK carries under each order's reference
    events,       \* payment_webhook_events: <<order, status, event id>>
    call,         \* the provider call each caller is in
    intent,       \* provider: the state of each order's payment intent
    asked,        \* history: checkout calls made per order
    sent          \* history: keys of the refund calls made per order

paymentVars == <<user, wallet, ledger, order, refund, outstanding, events,
                 call, intent, asked, sent>>

OPEN_CHECKOUT_STATUSES == {"pending", "checkout_requesting", "pending_reconciliation"}
OrderStatuses ==
    OPEN_CHECKOUT_STATUSES \cup {"absent", "paid", "failed", "closed",
                                 "refunding", "refunded"}
ActiveRefund == {"requesting", "retrying", "pending_reconciliation"}
RefundStatuses == ActiveRefund \cup {"absent", "refunded", "risk", "resolved"}
IntentStates == {"none", "pending", "paid", "failed", "closed", "refunded"}
Answers == (IntentStates \ {"none"}) \cup {"refunding", "error"}

(* A claim is TRUE while it is set and younger than its five minute lease; *)
(* every reader treats an expired claim like none.  The refund claim is    *)
(* read only while the refund is requesting or retrying.                   *)
OrderRow ==
    [status : OrderStatuses, txn : BOOLEAN, url : BOOLEAN,
     checkout_claim : BOOLEAN, reconciliation_claim : BOOLEAN]
RefundRow ==
    [status : RefundStatuses, key : RefundKeys \cup {WebhookKey}, claim : BOOLEAN]
NoCall == [kind |-> "none"]
Call ==
    {NoCall} \cup
    [kind : {"checkout", "reconcile", "refund"}, order : Orders,
     key : RefundKeys \cup {WebhookKey}, answer : Answers \cup {"none", "applied"}]

NoOrder == [status |-> "absent", txn |-> FALSE, url |-> FALSE,
            checkout_claim |-> FALSE, reconciliation_claim |-> FALSE]
NoRefund == [status |-> "absent", key |-> WebhookKey, claim |-> FALSE]

PaymentTypeOK ==
    /\ user \in {"active", "frozen"}
    /\ wallet \in [balance : Nat, reserved : Nat]
    /\ ledger \in [Accounts -> Int]
    /\ order \in [Orders -> OrderRow]
    /\ refund \in [Orders -> RefundRow]
    /\ outstanding \in [Orders -> Nat]
    /\ events \subseteq Orders \X IntentStates \X (EventIds \cup {ReconcileId})
    /\ call \in [Callers -> Call]
    /\ intent \in [Orders -> IntentStates]
    /\ asked \in [Orders -> Nat]
    /\ sent \in [Orders -> SUBSET RefundKeys]

PaymentInit ==
    /\ user = "active"
    /\ wallet = [balance |-> 0, reserved |-> 0]
    /\ ledger = EmptyLedger
    /\ order = [o \in Orders |-> NoOrder]
    /\ refund = [o \in Orders |-> NoRefund]
    /\ outstanding = [o \in Orders |-> 0]
    /\ events = {}
    /\ call = [c \in Callers |-> NoCall]
    /\ intent = [o \in Orders |-> "none"]
    /\ asked = [o \in Orders |-> 0]
    /\ sent = [o \in Orders |-> {}]

OpenOrders == {o \in Orders : order[o].status \in OPEN_CHECKOUT_STATUSES}

Begin(c, o, kind, key) ==
    /\ call[c] = NoCall
    /\ call' = [call EXCEPT ![c] = [kind |-> kind, order |-> o, key |-> key,
                                    answer |-> "none"]]
End(c) == call' = [call EXCEPT ![c] = NoCall]

-----------------------------------------------------------------------------
(* POST /billing/checkout                                                  *)

counted_pending_only == {o \in Orders : order[o].status = "pending"}
counted_open_orders == OpenOrders

create_order(o) ==
    /\ user = "active"
    /\ order[o].status = "absent"
    /\ Cardinality(counted_open_orders) < MaxOpenOrders
    /\ order' = [order EXCEPT ![o].status = "pending"]
    /\ UNCHANGED <<user, wallet, ledger, refund, outstanding, events, call,
                   intent, asked, sent>>

checkout_claimable_again(o) ==
    /\ ~order[o].txn /\ ~order[o].url
    /\ \/ order[o].status = "pending"
       \/ order[o].status = "checkout_requesting" /\ ~order[o].checkout_claim

checkout_claimable(o) ==
    /\ ~order[o].txn /\ ~order[o].url
    /\ order[o].status = "pending"

(* One caller gets the right to create the provider's intent.  The         *)
(* customer's repeated request finds the same order.                       *)
prepare_checkout(c, o) ==
    /\ user = "active"
    /\ checkout_claimable(o)
    /\ order' = [order EXCEPT ![o].status = "checkout_requesting",
                              ![o].checkout_claim = TRUE]
    /\ Begin(c, o, "checkout", WebhookKey)
    /\ asked' = [asked EXCEPT ![o] = @ + 1]
    /\ UNCHANGED <<user, wallet, ledger, refund, outstanding, events, intent, sent>>

(* A claim that has outlived its lease is never retried.                   *)
prepare_checkout_expired(o) ==
    /\ user = "active"
    /\ order[o].status = "checkout_requesting"
    /\ ~(order[o].url /\ order[o].txn)
    /\ ~order[o].checkout_claim
    /\ order' = [order EXCEPT ![o].status = "pending_reconciliation"]
    /\ UNCHANGED <<user, wallet, ledger, refund, outstanding, events, call,
                   intent, asked, sent>>

(* The answer of create_checkout is written only if nothing has touched    *)
(* the order meanwhile.                                                    *)
create_live_checkout(c) ==
    LET o == call[c].order
        a == call[c].answer
    IN  /\ call[c].kind = "checkout"
        /\ a # "none"
        /\ order' =
             IF a = "error" /\ order[o].status = "checkout_requesting"
             THEN [order EXCEPT ![o].status = "pending_reconciliation",
                                ![o].checkout_claim = FALSE]
             ELSE IF /\ a # "error"
                     /\ order[o].status = "checkout_requesting"
                     /\ ~order[o].txn
             THEN [order EXCEPT
                     ![o].status = IF a = "pending"
                                   THEN "pending" ELSE "pending_reconciliation",
                     ![o].txn = TRUE,
                     ![o].url = TRUE,
                     ![o].checkout_claim = FALSE]
             ELSE order
        /\ End(c)
        /\ UNCHANGED <<user, wallet, ledger, refund, outstanding, events,
                       intent, asked, sent>>

-----------------------------------------------------------------------------
(* Money: crediting a payment, taking a refund back, closing its risk      *)

credit_wallet(o) ==
    /\ wallet' = [wallet EXCEPT !.balance = @ + CreditOf[o]]
    /\ ledger' = Post(ledger, [customer_available |-> CreditOf[o],
                               platform_clearing  |-> -CreditOf[o]])

recovered_in_full(o) == CreditOf[o]

(* What a refund takes back of the order's credit: what is left of it.     *)
recovered(o) ==
    IF wallet.balance >= CreditOf[o] THEN CreditOf[o] ELSE wallet.balance

(* May the refund command with this key still complete?  One row per order *)
(* and a terminal row is only replayed.                                    *)
refundable(o, key) ==
    /\ order[o].status \in {"paid", "refunding"}
    /\ \/ refund[o].status = "absent"
       \/ refund[o].status \in ActiveRefund /\ refund[o].key = key

(* The cash is gone: take the credit back.  What was spent already becomes *)
(* a risk, and freezes the account.                                        *)
apply_refund(o, key) ==
    LET shortfall == CreditOf[o] - recovered(o)
    IN  /\ refundable(o, key)
        /\ wallet' = [wallet EXCEPT !.balance = @ - recovered(o)]
        /\ ledger' = Post(ledger, [customer_available |-> -recovered(o),
                                   platform_risk      |-> -shortfall,
                                   platform_clearing  |-> CreditOf[o]])
        /\ outstanding' = [outstanding EXCEPT ![o] = @ + shortfall]
        /\ user' = IF shortfall = 0 THEN user ELSE "frozen"
        /\ refund' = [refund EXCEPT
             ![o].status = IF shortfall = 0 THEN "refunded" ELSE "risk",
             ![o].key = key]
        /\ order' = [order EXCEPT ![o].status = "refunded",
                                  ![o].reconciliation_claim = FALSE]

(* The part of the shortfall the platform gives up.                        *)
written_off(o, action) ==
    IF action = "recover_available" \/ wallet.balance >= outstanding[o]
    THEN 0 ELSE outstanding[o] - wallet.balance

(* POST /ops/refunds/{refund_id}/risk-disposition, once every model hold   *)
(* is cleared.  A repeated command finds its journal row and changes       *)
(* nothing.                                                                *)
resolve_refund_risk(o, action) ==
    LET lost == written_off(o, action)
        taken == outstanding[o] - lost
    IN  /\ refund[o].status = "risk"
        /\ order[o].status = "refunded"
        /\ outstanding[o] > 0
        /\ wallet.reserved = 0
        /\ action = "recover_available" => wallet.balance >= outstanding[o]
        /\ wallet' = [wallet EXCEPT !.balance = @ - taken]
        /\ ledger' = Post(ledger, [platform_risk      |-> outstanding[o],
                                   customer_available |-> -taken,
                                   platform_loss      |-> -lost])
        /\ outstanding' = [outstanding EXCEPT ![o] = 0]
        /\ refund' = [refund EXCEPT ![o].status = "resolved"]
        /\ UNCHANGED <<user, order, events, call, intent, asked, sent>>

-----------------------------------------------------------------------------
(* Events: POST /billing/live/webhook and reconciliations                  *)

creditable_unless_replayed(o) ==
    order[o].status \in OPEN_CHECKOUT_STATUSES \cup {"paid"}

creditable(o) == order[o].status \in OPEN_CHECKOUT_STATUSES

(* pending, failed or closed.  A callback that beats the checkout answer   *)
(* sends the order to reconciliation: there is an intent, but no trusted   *)
(* checkout URL.                                                           *)
apply_open(o, status) ==
    /\ order[o].status \in OPEN_CHECKOUT_STATUSES
    /\ LET requesting == order[o].status = "checkout_requesting"
       IN  order' = [order EXCEPT
             ![o].txn = TRUE,
             ![o].reconciliation_claim = FALSE,
             ![o].status = IF status # "pending" THEN status
                           ELSE IF requesting THEN "pending_reconciliation" ELSE @,
             ![o].checkout_claim = IF status # "pending" \/ requesting
                                   THEN FALSE ELSE @]
    /\ UNCHANGED <<user, wallet, ledger, refund, outstanding>>

apply_paid(o) ==
    /\ creditable(o)
    /\ order' = [order EXCEPT ![o].status = "paid",
                              ![o].txn = TRUE,
                              ![o].checkout_claim = FALSE,
                              ![o].reconciliation_claim = FALSE]
    /\ credit_wallet(o)
    /\ UNCHANGED <<user, refund, outstanding>>

(* A refund the gateway has asked for completes under that command's key;  *)
(* one it knows nothing of, on a paid order, gets a key of its own.        *)
apply_refunded(o) ==
    IF order[o].status = "refunded"
    THEN /\ refund[o].status # "absent"
         /\ UNCHANGED <<user, wallet, ledger, order, refund, outstanding>>
    ELSE apply_refund(o, IF order[o].status = "refunding"
                         THEN refund[o].key ELSE WebhookKey)

(* An event is stored with the change it makes, in one transaction, and    *)
(* only when it makes or confirms one.                                     *)
apply_webhook(o, status, id) ==
    /\ order[o].status # "absent"
    /\ <<o, status, id>> \notin events
    /\ \/ status \in {"pending", "failed", "closed"} /\ apply_open(o, status)
       \/ status = "paid" /\ apply_paid(o)
       \/ status = "refunded" /\ apply_refunded(o)
    /\ events' = events \cup {<<o, status, id>>}

(* What the intent has been.                                               *)
Past(o) ==
    CASE intent[o] = "none"     -> {}
      [] intent[o] = "refunded" -> {"pending", "paid", "refunded"}
      [] OTHER                  -> {"pending", intent[o]}

live_payment_webhook(o, status, id) ==
    /\ <<status, id>> \in Webhooks
    /\ status \in Past(o)
    /\ apply_webhook(o, status, id)
    /\ UNCHANGED <<call, intent, asked, sent>>

-----------------------------------------------------------------------------
(* POST /ops/payments/{order_id}/reconcile                                 *)

reconcile_claims(c, o) ==
    /\ \/ order[o].status \in {"pending", "pending_reconciliation"}
       \/ order[o].status = "checkout_requesting" /\ ~order[o].checkout_claim
    /\ ~order[o].reconciliation_claim
    /\ order' = [order EXCEPT
         ![o].status = "pending_reconciliation",
         ![o].reconciliation_claim = TRUE,
         ![o].checkout_claim = IF order[o].status = "checkout_requesting"
                               THEN FALSE ELSE @]
    /\ Begin(c, o, "reconcile", WebhookKey)
    /\ UNCHANGED <<user, wallet, ledger, refund, outstanding, events, intent,
                   asked, sent>>

Reconciled == {"pending", "failed", "closed", "paid"}

(* An error, or a status this route does not settle: leave it to people.   *)
reconcile_keeps(c) ==
    LET o == call[c].order
    IN  /\ call[c].kind = "reconcile"
        /\ call[c].answer \in {"error", "refunded", "refunding"}
        /\ order' = IF order[o].status \in {"pending", "pending_reconciliation"}
                    THEN [order EXCEPT ![o].status = "pending_reconciliation"]
                    ELSE order
        /\ End(c)
        /\ UNCHANGED <<user, wallet, ledger, refund, outstanding, events, intent,
                       asked, sent>>

(* The answer is applied as an event, commits, and only then is the claim  *)
(* cleared.  A duplicate goes on to clear it; a refusal ends here.         *)
reconcile_applies(c) ==
    LET o == call[c].order
        a == call[c].answer
        duplicate == \/ <<o, a, ReconcileId>> \in events
                     \/ a = "paid" /\ order[o].status = "paid"
        applied == [call EXCEPT ![c].answer = "applied"]
    IN  /\ call[c].kind = "reconcile"
        /\ a \in Reconciled
        /\ \/ apply_webhook(o, a, ReconcileId) /\ call' = applied
           \/ /\ duplicate
              /\ call' = applied
              /\ UNCHANGED <<user, wallet, ledger, order, refund, outstanding, events>>
           \/ /\ ~duplicate
              /\ order[o].status \notin OPEN_CHECKOUT_STATUSES
              /\ End(c)
              /\ UNCHANGED <<user, wallet, ledger, order, refund, outstanding, events>>
        /\ UNCHANGED <<intent, asked, sent>>

reconcile_finishes(c) ==
    /\ call[c].kind = "reconcile"
    /\ call[c].answer = "applied"
    /\ order' = [order EXCEPT ![call[c].order].reconciliation_claim = FALSE]
    /\ End(c)
    /\ UNCHANGED <<user, wallet, ledger, refund, outstanding, events, intent,
                   asked, sent>>

-----------------------------------------------------------------------------
(* POST /ops/payments/{order_id}/refund                                    *)

same_command_any_key(o, key) == TRUE

(* A refund row is found again only by the key it was made with.           *)
same_command(o, key) == refund[o].key = key

(* The command is stored before the provider is called; a stale claim, or  *)
(* one that ended ambiguously, may be taken again with the same key.       *)
prepare_refund(c, o, key) ==
    /\ order[o].txn
    /\ \/ /\ refund[o].status = "absent"
          /\ order[o].status = "paid"
          /\ order' = [order EXCEPT ![o].status = "refunding"]
          /\ refund' = [refund EXCEPT ![o] =
               [status |-> "requesting", key |-> key, claim |-> TRUE]]
       \/ /\ refund[o].status \in {"requesting", "retrying"}
          /\ same_command(o, key)
          /\ ~refund[o].claim
          /\ refund' = [refund EXCEPT
               ![o].status = IF @ = "requesting" THEN "retrying" ELSE "requesting",
               ![o].claim = TRUE]
          /\ UNCHANGED order
       \/ /\ refund[o].status = "pending_reconciliation"
          /\ same_command(o, key)
          /\ refund' = [refund EXCEPT ![o].status = "requesting", ![o].claim = TRUE]
          /\ UNCHANGED order
    /\ Begin(c, o, "refund", key)
    /\ sent' = [sent EXCEPT ![o] = @ \cup {key}]
    /\ UNCHANGED <<user, wallet, ledger, outstanding, events, intent, asked>>

refund_confirmed_by_any_answer(answer) == answer # "error"
refund_confirmed(answer) == answer = "refunded"

park_refund_unguarded(o) ==
    refund' = [refund EXCEPT ![o].status = "pending_reconciliation"]

(* The UPDATE of an ambiguous answer leaves a refund alone that a webhook  *)
(* or another caller has completed.                                        *)
park_refund(o) ==
    refund' = IF refund[o].status \in {"requesting", "retrying"}
              THEN [refund EXCEPT ![o].status = "pending_reconciliation"]
              ELSE refund

refund_live_payment(c) ==
    LET o == call[c].order
        a == call[c].answer
    IN  /\ call[c].kind = "refund"
        /\ a # "none"
        /\ \/ /\ ~refund_confirmed(a)
              /\ park_refund(o)
              /\ UNCHANGED <<user, wallet, ledger, order, outstanding>>
           \/ refund_confirmed(a) /\ apply_refund(o, call[c].key)
           \/ /\ refund_confirmed(a)
              /\ ~refundable(o, call[c].key)
              /\ UNCHANGED <<user, wallet, ledger, order, refund, outstanding>>
        /\ End(c)
        /\ UNCHANGED <<events, intent, asked, sent>>

-----------------------------------------------------------------------------
(* The account, model requests, time and crashes                           *)

freeze ==
    /\ user = "active"
    /\ user' = "frozen"
    /\ UNCHANGED <<wallet, ledger, order, refund, outstanding, events, call,
                   intent, asked, sent>>

no_active_refund == \A o \in Orders : refund[o].status \notin ActiveRefund
no_unresolved_risk == \A o \in Orders : refund[o].status # "risk"

unfreeze ==
    /\ user = "frozen"
    /\ no_unresolved_risk
    /\ user' = "active"
    /\ UNCHANGED <<wallet, ledger, order, refund, outstanding, events, call,
                   intent, asked, sent>>

(* What Billing does to the wallet, with amounts for all there is to know. *)
hold_credit(n) ==
    /\ user = "active"
    /\ wallet.balance >= n
    /\ wallet' = [balance |-> wallet.balance - n, reserved |-> wallet.reserved + n]
    /\ ledger' = Post(ledger, [customer_available |-> -n, customer_reserved |-> n])
    /\ UNCHANGED <<user, order, refund, outstanding, events, call, intent,
                   asked, sent>>

finalize_hold(n, charged) ==
    /\ wallet.reserved >= n
    /\ charged \in 0..n
    /\ wallet' = [balance  |-> wallet.balance + (n - charged),
                  reserved |-> wallet.reserved - n]
    /\ ledger' = Post(ledger, [customer_reserved  |-> -n,
                               customer_available |-> n - charged,
                               platform_revenue   |-> charged])
    /\ UNCHANGED <<user, order, refund, outstanding, events, call, intent,
                   asked, sent>>

(* Five minutes pass.                                                      *)
lease_expires(o) ==
    /\ \/ /\ order[o].status = "checkout_requesting"
          /\ order[o].checkout_claim
          /\ order' = [order EXCEPT ![o].checkout_claim = FALSE]
          /\ UNCHANGED refund
       \/ /\ order[o].reconciliation_claim
          /\ order' = [order EXCEPT ![o].reconciliation_claim = FALSE]
          /\ UNCHANGED refund
       \/ /\ refund[o].status \in {"requesting", "retrying"}
          /\ refund[o].claim
          /\ refund' = [refund EXCEPT ![o].claim = FALSE]
          /\ UNCHANGED order
    /\ UNCHANGED <<user, wallet, ledger, outstanding, events, call, intent,
                   asked, sent>>

(* The process dies between its two transactions.                          *)
crash(c) ==
    /\ call[c] # NoCall
    /\ End(c)
    /\ UNCHANGED <<user, wallet, ledger, order, refund, outstanding, events,
                   intent, asked, sent>>

-----------------------------------------------------------------------------
(* The provider (external)                                                 *)

(* A refund needs no call: the provider or the bank may order one itself.  *)
provider_moves(o) ==
    /\ \E s \in IntentStates :
          /\ <<intent[o], s>> \in ProviderMoves
          /\ s = "pending" => asked[o] > 0
          /\ intent' = [intent EXCEPT ![o] = s]
    /\ UNCHANGED <<user, wallet, ledger, order, refund, outstanding, events,
                   call, asked, sent>>

(* The intent's state at the time of the answer, a refund under way, or no *)
(* usable answer at all.                                                   *)
provider_answers(c) ==
    /\ call[c].kind # "none"
    /\ call[c].answer = "none"
    /\ \E a \in Answers :
          /\ \/ a = "error"
             \/ a = intent[call[c].order]
             \/ a = "refunding" /\ intent[call[c].order] = "paid"
          /\ call' = [call EXCEPT ![c].answer = a]
    /\ UNCHANGED <<user, wallet, ledger, order, refund, outstanding, events,
                   intent, asked, sent>>

PaymentNext ==
    \/ \E o \in Orders :
          \/ create_order(o)
          \/ prepare_checkout_expired(o)
          \/ \E status \in IntentStates, id \in EventIds :
                live_payment_webhook(o, status, id)
          \/ \E action \in {"recover_available", "write_off"} :
                resolve_refund_risk(o, action)
          \/ lease_expires(o)
          \/ provider_moves(o)
    \/ \E c \in Callers :
          \/ \E o \in Orders : prepare_checkout(c, o) \/ reconcile_claims(c, o)
          \/ \E o \in Orders, key \in RefundKeys : prepare_refund(c, o, key)
          \/ provider_answers(c)
          \/ create_live_checkout(c)
          \/ reconcile_keeps(c) \/ reconcile_applies(c) \/ reconcile_finishes(c)
          \/ refund_live_payment(c)
          \/ crash(c)
    \/ freeze \/ unfreeze
    \/ \E n \in HoldAmounts :
          hold_credit(n) \/ \E charged \in 0..n : finalize_hold(n, charged)

PaymentSpec == PaymentInit /\ [][PaymentNext]_paymentVars

-----------------------------------------------------------------------------
(* Properties                                                              *)

PaidOrders == {o \in Orders : order[o].status \in {"paid", "refunding"}}

(* The books tell the payments' story: what clearing owes is exactly the   *)
(* credit of the orders that are paid and not refunded, each booked once   *)
(* however many events, reconciliations and callers reported it; risk is   *)
(* what refunds could not take back; and the wallet is the journal's sum.  *)
BooksMatchPayments ==
    /\ ledger[PLATFORM_CLEARING] = -SumFunctionOnSet(CreditOf, PaidOrders)
    /\ ledger[PLATFORM_RISK] = -SumFunctionOnSet(outstanding, Orders)
    /\ wallet.balance = ledger[CUSTOMER_AVAILABLE]
    /\ wallet.reserved = ledger[CUSTOMER_RESERVED]
    /\ TotalOf(ledger) = 0

(* The gateway never runs ahead of the provider: credit is given, taken    *)
(* back, or an order written off only after the provider's intent really   *)
(* got there, whatever stale or ambiguous answers came in between.         *)
FollowsTheProvider ==
    \A o \in Orders :
        /\ order[o].status \in {"paid", "refunding"} =>
              intent[o] \in {"paid", "refunded"}
        /\ order[o].status \in {"failed", "closed", "refunded"} =>
              intent[o] = order[o].status

(* An account with a refund that could not be recovered stays frozen, and  *)
(* such a refund is one with money outstanding.                            *)
FrozenWhileAtRisk ==
    \A o \in Orders :
        /\ refund[o].status = "risk" <=> outstanding[o] > 0
        /\ refund[o].status = "risk" => user = "frozen"

(* The provider is asked to create an order's payment intent at most once, *)
(* through lost answers, expired claims, crashes and repeated requests.    *)
CheckoutCalledOnce == \A o \in Orders : asked[o] <= 1

(* All refund calls of an order carry one idempotency key, so that the     *)
(* provider can tell a retry from a second refund.                         *)
OneRefundCommand ==
    \A o \in Orders : \A k, l \in sent[o] : k = l

(* The customer's open orders stay within the configured cap.              *)
OpenOrdersWithinCap == Cardinality(OpenOrders) <= MaxOpenOrders

(* What is over stays over: no late answer, event or claim reopens an      *)
(* order that has failed, was closed or refunded, or a completed refund.   *)
OverIsOver ==
    [][\A o \in Orders :
          /\ order[o].status \in {"failed", "closed", "refunded"} =>
                order'[o].status = order[o].status
          /\ refund[o].status \in {"refunded", "resolved"} =>
                refund'[o].status = refund[o].status
          /\ refund[o].status = "risk" =>
                refund'[o].status \in {"risk", "resolved"}]_paymentVars
=============================================================================
