------------------------ MODULE PaymentDomain_proofs ------------------------
(***************************************************************************)
(* Theorems about PaymentDomain, for every value of its constants: any     *)
(* number of orders, callers, keys, event ids and amounts, and whatever    *)
(* the provider's intents and webhooks do within the rules of the module.  *)
(***************************************************************************)
EXTENDS PaymentDomain, Sums_proofs

-----------------------------------------------------------------------------
(* Journal entries: what each of the module's postings does to the         *)
(* accounts that the books follow.                                         *)

LEMMA PostCredit ==
    ASSUME NEW l \in [Accounts -> Int], NEW n \in Nat
    PROVE  LET m == Post(l, [customer_available |-> n, platform_clearing |-> -n])
           IN  /\ m \in [Accounts -> Int]
               /\ m[CUSTOMER_AVAILABLE] = l[CUSTOMER_AVAILABLE] + n
               /\ m[CUSTOMER_RESERVED] = l[CUSTOMER_RESERVED]
               /\ m[PLATFORM_CLEARING] = l[PLATFORM_CLEARING] - n
               /\ m[PLATFORM_RISK] = l[PLATFORM_RISK]
               /\ TotalOf(m) = TotalOf(l)
  BY DEF Post, Amount, TotalOf, Accounts, CUSTOMER_AVAILABLE,
         CUSTOMER_RESERVED, PLATFORM_CLEARING, PLATFORM_REVENUE, PLATFORM_RISK,
         PLATFORM_LOSS, PLATFORM_PROVIDER_EXPENSE, PLATFORM_PROVIDER_PAYABLE

LEMMA PostRefund ==
    ASSUME NEW l \in [Accounts -> Int], NEW credit \in Nat, NEW taken \in Nat
    PROVE  LET m == Post(l, [customer_available |-> -taken,
                             platform_risk      |-> -(credit - taken),
                             platform_clearing  |-> credit])
           IN  /\ m \in [Accounts -> Int]
               /\ m[CUSTOMER_AVAILABLE] = l[CUSTOMER_AVAILABLE] - taken
               /\ m[CUSTOMER_RESERVED] = l[CUSTOMER_RESERVED]
               /\ m[PLATFORM_CLEARING] = l[PLATFORM_CLEARING] + credit
               /\ m[PLATFORM_RISK] = l[PLATFORM_RISK] - (credit - taken)
               /\ TotalOf(m) = TotalOf(l)
  BY DEF Post, Amount, TotalOf, Accounts, CUSTOMER_AVAILABLE,
         CUSTOMER_RESERVED, PLATFORM_CLEARING, PLATFORM_REVENUE, PLATFORM_RISK,
         PLATFORM_LOSS, PLATFORM_PROVIDER_EXPENSE, PLATFORM_PROVIDER_PAYABLE

LEMMA PostResolve ==
    ASSUME NEW l \in [Accounts -> Int], NEW owed \in Nat, NEW lost \in Nat
    PROVE  LET m == Post(l, [platform_risk      |-> owed,
                             customer_available |-> -(owed - lost),
                             platform_loss      |-> -lost])
           IN  /\ m \in [Accounts -> Int]
               /\ m[CUSTOMER_AVAILABLE] = l[CUSTOMER_AVAILABLE] - (owed - lost)
               /\ m[CUSTOMER_RESERVED] = l[CUSTOMER_RESERVED]
               /\ m[PLATFORM_CLEARING] = l[PLATFORM_CLEARING]
               /\ m[PLATFORM_RISK] = l[PLATFORM_RISK] + owed
               /\ TotalOf(m) = TotalOf(l)
  BY DEF Post, Amount, TotalOf, Accounts, CUSTOMER_AVAILABLE,
         CUSTOMER_RESERVED, PLATFORM_CLEARING, PLATFORM_REVENUE, PLATFORM_RISK,
         PLATFORM_LOSS, PLATFORM_PROVIDER_EXPENSE, PLATFORM_PROVIDER_PAYABLE

LEMMA PostHold ==
    ASSUME NEW l \in [Accounts -> Int], NEW n \in Nat
    PROVE  LET m == Post(l, [customer_available |-> -n, customer_reserved |-> n])
           IN  /\ m \in [Accounts -> Int]
               /\ m[CUSTOMER_AVAILABLE] = l[CUSTOMER_AVAILABLE] - n
               /\ m[CUSTOMER_RESERVED] = l[CUSTOMER_RESERVED] + n
               /\ m[PLATFORM_CLEARING] = l[PLATFORM_CLEARING]
               /\ m[PLATFORM_RISK] = l[PLATFORM_RISK]
               /\ TotalOf(m) = TotalOf(l)
  BY DEF Post, Amount, TotalOf, Accounts, CUSTOMER_AVAILABLE,
         CUSTOMER_RESERVED, PLATFORM_CLEARING, PLATFORM_REVENUE, PLATFORM_RISK,
         PLATFORM_LOSS, PLATFORM_PROVIDER_EXPENSE, PLATFORM_PROVIDER_PAYABLE

LEMMA PostFinal ==
    ASSUME NEW l \in [Accounts -> Int], NEW n \in Nat, NEW charged \in Nat
    PROVE  LET m == Post(l, [customer_reserved  |-> -n,
                             customer_available |-> n - charged,
                             platform_revenue   |-> charged])
           IN  /\ m \in [Accounts -> Int]
               /\ m[CUSTOMER_AVAILABLE] = l[CUSTOMER_AVAILABLE] + (n - charged)
               /\ m[CUSTOMER_RESERVED] = l[CUSTOMER_RESERVED] - n
               /\ m[PLATFORM_CLEARING] = l[PLATFORM_CLEARING]
               /\ m[PLATFORM_RISK] = l[PLATFORM_RISK]
               /\ TotalOf(m) = TotalOf(l)
  BY DEF Post, Amount, TotalOf, Accounts, CUSTOMER_AVAILABLE,
         CUSTOMER_RESERVED, PLATFORM_CLEARING, PLATFORM_REVENUE, PLATFORM_RISK,
         PLATFORM_LOSS, PLATFORM_PROVIDER_EXPENSE, PLATFORM_PROVIDER_PAYABLE

-----------------------------------------------------------------------------
(* What moves money: each of the steps that do, in numbers.                *)

(* The books before and after a step that moves `available' and `reserved' *)
(* of the wallet, `cleared' of the clearing account and `risked' of the    *)
(* risk account.                                                           *)
Booked(available, reserved, cleared, risked) ==
    /\ wallet' = [balance  |-> wallet.balance + available,
                  reserved |-> wallet.reserved + reserved]
    /\ wallet' \in [balance : Nat, reserved : Nat]
    /\ ledger' \in [Accounts -> Int]
    /\ ledger'[CUSTOMER_AVAILABLE] = ledger[CUSTOMER_AVAILABLE] + available
    /\ ledger'[CUSTOMER_RESERVED] = ledger[CUSTOMER_RESERVED] + reserved
    /\ ledger'[PLATFORM_CLEARING] = ledger[PLATFORM_CLEARING] + cleared
    /\ ledger'[PLATFORM_RISK] = ledger[PLATFORM_RISK] + risked
    /\ TotalOf(ledger') = TotalOf(ledger)

LEMMA CreditBooked ==
    ASSUME PaymentTypeOK, NEW o \in Orders, credit_wallet(o)
    PROVE  Booked(CreditOf[o], 0, -CreditOf[o], 0)
<1>1. /\ wallet \in [balance : Nat, reserved : Nat] /\ ledger \in [Accounts -> Int]
      /\ CreditOf[o] \in Nat
  BY PaymentAssumption DEF PaymentTypeOK
<1>2. /\ CUSTOMER_AVAILABLE \in Accounts /\ CUSTOMER_RESERVED \in Accounts
      /\ PLATFORM_CLEARING \in Accounts /\ PLATFORM_RISK \in Accounts
  BY DEF Accounts
<1>3. wallet' = [wallet EXCEPT !.balance = @ + CreditOf[o]]
  BY DEF credit_wallet
<1>4. ledger' = Post(ledger, [customer_available |-> CreditOf[o],
                              platform_clearing  |-> -CreditOf[o]])
  BY DEF credit_wallet
<1> DEFINE n == CreditOf[o]
<1>5. /\ ledger' \in [Accounts -> Int]
      /\ ledger'[CUSTOMER_AVAILABLE] = ledger[CUSTOMER_AVAILABLE] + n
      /\ ledger'[CUSTOMER_RESERVED] = ledger[CUSTOMER_RESERVED]
      /\ ledger'[PLATFORM_CLEARING] = ledger[PLATFORM_CLEARING] - n
      /\ ledger'[PLATFORM_RISK] = ledger[PLATFORM_RISK]
      /\ TotalOf(ledger') = TotalOf(ledger)
  <2>1. n \in Nat /\ ledger' = Post(ledger, [customer_available |-> n, platform_clearing |-> -n])
    BY <1>1, <1>4
  <2> HIDE DEF n
  <2>2. QED
    BY <1>1, <2>1, PostCredit
<1>6. wallet' = [balance |-> wallet.balance + CreditOf[o], reserved |-> wallet.reserved + 0]
  BY <1>1, <1>3
<1>7. wallet.balance + CreditOf[o] \in Nat /\ wallet.reserved + 0 \in Nat
  BY <1>1
<1>8. QED
  BY <1>1, <1>2, <1>5, <1>6, <1>7 DEF Booked

LEMMA RefundBooked ==
    ASSUME PaymentTypeOK, NEW o \in Orders, NEW key, apply_refund(o, key)
    PROVE  /\ recovered(o) \in Nat /\ recovered(o) <= CreditOf[o]
           /\ Booked(-recovered(o), 0, CreditOf[o], -(CreditOf[o] - recovered(o)))
<1>1. /\ wallet \in [balance : Nat, reserved : Nat] /\ ledger \in [Accounts -> Int]
      /\ CreditOf[o] \in Nat
  BY PaymentAssumption DEF PaymentTypeOK
<1>2. /\ CUSTOMER_AVAILABLE \in Accounts /\ CUSTOMER_RESERVED \in Accounts
      /\ PLATFORM_CLEARING \in Accounts /\ PLATFORM_RISK \in Accounts
  BY DEF Accounts
<1>3. /\ recovered(o) \in Nat /\ recovered(o) <= CreditOf[o]
      /\ recovered(o) <= wallet.balance
  BY <1>1 DEF recovered
<1> DEFINE credit == CreditOf[o]
           taken == recovered(o)
<1>4. /\ wallet' = [wallet EXCEPT !.balance = @ - taken]
      /\ ledger' = Post(ledger, [customer_available |-> -taken,
                                 platform_risk      |-> -(credit - taken),
                                 platform_clearing  |-> credit])
  BY DEF apply_refund
<1>5. /\ ledger' \in [Accounts -> Int]
      /\ ledger'[CUSTOMER_AVAILABLE] = ledger[CUSTOMER_AVAILABLE] - taken
      /\ ledger'[CUSTOMER_RESERVED] = ledger[CUSTOMER_RESERVED]
      /\ ledger'[PLATFORM_CLEARING] = ledger[PLATFORM_CLEARING] + credit
      /\ ledger'[PLATFORM_RISK] = ledger[PLATFORM_RISK] - (credit - taken)
      /\ TotalOf(ledger') = TotalOf(ledger)
  <2>1. credit \in Nat /\ taken \in Nat
    BY <1>1, <1>3
  <2> HIDE DEF credit, taken
  <2>2. QED
    BY <1>1, <1>4, <2>1, PostRefund
<1>6. wallet' = [balance |-> wallet.balance + -taken, reserved |-> wallet.reserved + 0]
  <2> HIDE DEF taken
  <2>1. taken \in Nat
    BY <1>3 DEF taken
  <2>2. QED
    BY <1>1, <1>4, <2>1
<1>7. wallet.balance + -taken \in Nat /\ wallet.reserved + 0 \in Nat
  <2> HIDE DEF taken
  <2>1. taken \in Nat /\ taken <= wallet.balance
    BY <1>3 DEF taken
  <2>2. QED
    BY <1>1, <2>1
<1>8. Booked(-taken, 0, credit, -(credit - taken))
  <2>1. credit \in Nat /\ taken \in Nat
    BY <1>1, <1>3
  <2> HIDE DEF credit, taken
  <2>2. QED
    BY <1>1, <1>2, <1>5, <1>6, <1>7, <2>1 DEF Booked
<1>9. QED
  BY <1>3, <1>8

LEMMA ResolveBooked ==
    ASSUME PaymentTypeOK, NEW o \in Orders, NEW action,
           action \in {"recover_available", "write_off"},
           resolve_refund_risk(o, action)
    PROVE  \E taken \in Nat : Booked(-taken, 0, 0, outstanding[o])
<1>1. /\ wallet \in [balance : Nat, reserved : Nat] /\ ledger \in [Accounts -> Int]
      /\ outstanding[o] \in Nat
  BY DEF PaymentTypeOK
<1>2. /\ CUSTOMER_AVAILABLE \in Accounts /\ CUSTOMER_RESERVED \in Accounts
      /\ PLATFORM_CLEARING \in Accounts /\ PLATFORM_RISK \in Accounts
  BY DEF Accounts
<1> DEFINE owed == outstanding[o]
           lost == written_off(o, action)
           taken == owed - lost
<1>3. lost \in Nat /\ taken \in Nat /\ taken <= wallet.balance
  <2>1. action = "recover_available" => wallet.balance >= outstanding[o]
    BY DEF resolve_refund_risk
  <2>2. QED
    BY <1>1, <2>1 DEF written_off
<1>4. /\ wallet' = [wallet EXCEPT !.balance = @ - taken]
      /\ ledger' = Post(ledger, [platform_risk      |-> owed,
                                 customer_available |-> -(owed - lost),
                                 platform_loss      |-> -lost])
  BY DEF resolve_refund_risk
<1>5. /\ ledger' \in [Accounts -> Int]
      /\ ledger'[CUSTOMER_AVAILABLE] = ledger[CUSTOMER_AVAILABLE] - taken
      /\ ledger'[CUSTOMER_RESERVED] = ledger[CUSTOMER_RESERVED]
      /\ ledger'[PLATFORM_CLEARING] = ledger[PLATFORM_CLEARING]
      /\ ledger'[PLATFORM_RISK] = ledger[PLATFORM_RISK] + owed
      /\ TotalOf(ledger') = TotalOf(ledger)
  <2>1. owed \in Nat /\ lost \in Nat
    BY <1>1, <1>3
  <2> HIDE DEF owed, lost
  <2>2. QED
    BY <1>1, <1>4, <2>1, PostResolve
<1>6. Booked(-taken, 0, 0, owed)
  <2>1. owed \in Nat /\ taken \in Nat /\ taken <= wallet.balance
    BY <1>1, <1>3
  <2> HIDE DEF owed, taken
  <2>2. wallet' = [balance |-> wallet.balance + -taken, reserved |-> wallet.reserved + 0]
    BY <1>1, <1>4, <2>1
  <2>3. wallet.balance + -taken \in Nat /\ wallet.reserved + 0 \in Nat
    BY <1>1, <2>1
  <2>4. QED
    BY <1>1, <1>2, <1>5, <2>1, <2>2, <2>3 DEF Booked
<1>7. QED
  BY <1>3, <1>6

LEMMA HoldBooked ==
    ASSUME PaymentTypeOK, NEW n \in HoldAmounts, hold_credit(n)
    PROVE  Booked(-n, n, 0, 0)
<1>1. /\ wallet \in [balance : Nat, reserved : Nat] /\ ledger \in [Accounts -> Int]
      /\ n \in Nat /\ n <= wallet.balance
  BY PaymentAssumption DEF PaymentTypeOK, hold_credit
<1>2. /\ CUSTOMER_AVAILABLE \in Accounts /\ CUSTOMER_RESERVED \in Accounts
      /\ PLATFORM_CLEARING \in Accounts /\ PLATFORM_RISK \in Accounts
  BY DEF Accounts
<1>3. /\ wallet' = [balance |-> wallet.balance - n, reserved |-> wallet.reserved + n]
      /\ ledger' = Post(ledger, [customer_available |-> -n, customer_reserved |-> n])
  BY DEF hold_credit
<1>4. /\ ledger' \in [Accounts -> Int]
      /\ ledger'[CUSTOMER_AVAILABLE] = ledger[CUSTOMER_AVAILABLE] - n
      /\ ledger'[CUSTOMER_RESERVED] = ledger[CUSTOMER_RESERVED] + n
      /\ ledger'[PLATFORM_CLEARING] = ledger[PLATFORM_CLEARING]
      /\ ledger'[PLATFORM_RISK] = ledger[PLATFORM_RISK]
      /\ TotalOf(ledger') = TotalOf(ledger)
  BY <1>1, <1>3, PostHold
<1>5. wallet.balance - n = wallet.balance + -n /\ wallet.balance - n \in Nat
  BY <1>1
<1>6. QED
  BY <1>1, <1>2, <1>3, <1>4, <1>5 DEF Booked

LEMMA FinalizeBooked ==
    ASSUME PaymentTypeOK, NEW n \in HoldAmounts, NEW charged \in 0..n,
           finalize_hold(n, charged)
    PROVE  Booked(n - charged, -n, 0, 0)
<1>1. /\ wallet \in [balance : Nat, reserved : Nat] /\ ledger \in [Accounts -> Int]
      /\ n \in Nat /\ charged \in Nat /\ charged <= n /\ n <= wallet.reserved
  BY PaymentAssumption DEF PaymentTypeOK, finalize_hold
<1>2. /\ CUSTOMER_AVAILABLE \in Accounts /\ CUSTOMER_RESERVED \in Accounts
      /\ PLATFORM_CLEARING \in Accounts /\ PLATFORM_RISK \in Accounts
  BY DEF Accounts
<1>3. /\ wallet' = [balance  |-> wallet.balance + (n - charged),
                    reserved |-> wallet.reserved - n]
      /\ ledger' = Post(ledger, [customer_reserved  |-> -n,
                                 customer_available |-> n - charged,
                                 platform_revenue   |-> charged])
  BY DEF finalize_hold
<1>4. /\ ledger' \in [Accounts -> Int]
      /\ ledger'[CUSTOMER_AVAILABLE] = ledger[CUSTOMER_AVAILABLE] + (n - charged)
      /\ ledger'[CUSTOMER_RESERVED] = ledger[CUSTOMER_RESERVED] - n
      /\ ledger'[PLATFORM_CLEARING] = ledger[PLATFORM_CLEARING]
      /\ ledger'[PLATFORM_RISK] = ledger[PLATFORM_RISK]
      /\ TotalOf(ledger') = TotalOf(ledger)
  BY <1>1, <1>3, PostFinal
<1>5. /\ wallet.reserved - n = wallet.reserved + -n /\ wallet.reserved - n \in Nat
      /\ wallet.balance + (n - charged) \in Nat
  BY <1>1
<1>6. QED
  BY <1>1, <1>2, <1>3, <1>4, <1>5 DEF Booked

-----------------------------------------------------------------------------
(* Type correctness                                                        *)

(* A caller that is in a call is in one about an order.                    *)
LEMMA CallFacts ==
    ASSUME PaymentTypeOK, NEW c \in Callers, call[c].kind # "none"
    PROVE  /\ call[c].order \in Orders
           /\ call[c].key \in RefundKeys \cup {WebhookKey}
           /\ call[c].answer \in Answers \cup {"none", "applied"}
           /\ order[call[c].order] \in OrderRow
           /\ refund[call[c].order] \in RefundRow
           /\ [call EXCEPT ![c] = NoCall] \in [Callers -> Call]
<1>1. call[c] \in Call
  BY DEF PaymentTypeOK
<1>2. call[c] \in [kind : {"checkout", "reconcile", "refund"}, order : Orders,
                   key : RefundKeys \cup {WebhookKey},
                   answer : Answers \cup {"none", "applied"}]
  BY <1>1 DEF Call, NoCall
<1>3. [call EXCEPT ![c] = NoCall] \in [Callers -> Call]
  BY DEF PaymentTypeOK, Call
<1>4. QED
  BY <1>2, <1>3 DEF PaymentTypeOK

(* The names of the statuses, for the rows that are written with them.     *)
LEMMA StatusNames ==
    /\ {"absent", "pending", "checkout_requesting", "pending_reconciliation",
        "paid", "failed", "closed", "refunding", "refunded"} \subseteq OrderStatuses
    /\ {"absent", "requesting", "retrying", "pending_reconciliation",
        "refunded", "risk", "resolved"} \subseteq RefundStatuses
  BY DEF OrderStatuses, OPEN_CHECKOUT_STATUSES, RefundStatuses, ActiveRefund

(* A row with one field written is still a row.                            *)
LEMMA OneFieldWritten ==
    ASSUME PaymentTypeOK, NEW o \in Orders
    PROVE  /\ order \in [Orders -> OrderRow] /\ refund \in [Orders -> RefundRow]
           /\ \A s \in OrderStatuses :
                 [order EXCEPT ![o].status = s] \in [Orders -> OrderRow]
           /\ [order EXCEPT ![o].checkout_claim = FALSE] \in [Orders -> OrderRow]
           /\ [order EXCEPT ![o].reconciliation_claim = FALSE] \in [Orders -> OrderRow]
           /\ \A s \in RefundStatuses :
                 [refund EXCEPT ![o].status = s] \in [Orders -> RefundRow]
           /\ [refund EXCEPT ![o].claim = FALSE] \in [Orders -> RefundRow]
<1>1. order \in [Orders -> OrderRow] /\ refund \in [Orders -> RefundRow]
  BY DEF PaymentTypeOK
<1>2. \A s \in OrderStatuses :
         [order EXCEPT ![o].status = s] \in [Orders -> OrderRow]
  BY <1>1 DEF OrderRow
<1>3. [order EXCEPT ![o].checkout_claim = FALSE] \in [Orders -> OrderRow]
  BY <1>1 DEF OrderRow
<1>4. [order EXCEPT ![o].reconciliation_claim = FALSE] \in [Orders -> OrderRow]
  BY <1>1 DEF OrderRow
<1>5. \A s \in RefundStatuses :
         [refund EXCEPT ![o].status = s] \in [Orders -> RefundRow]
  BY <1>1 DEF RefundRow
<1>6. [refund EXCEPT ![o].claim = FALSE] \in [Orders -> RefundRow]
  BY <1>1 DEF RefundRow
<1>7. QED
  BY <1>1, <1>2, <1>3, <1>4, <1>5, <1>6

(* POST /billing/checkout.                                                 *)
LEMMA CheckoutType ==
    ASSUME PaymentTypeOK,
           \/ \E o \in Orders : create_order(o) \/ prepare_checkout_expired(o)
           \/ \E c \in Callers, o \in Orders : prepare_checkout(c, o)
           \/ \E c \in Callers : create_live_checkout(c)
    PROVE  PaymentTypeOK'
<1>1. ASSUME NEW o \in Orders, create_order(o)
      PROVE PaymentTypeOK'
  BY <1>1, StatusNames, OneFieldWritten DEF PaymentTypeOK, create_order
<1>2. ASSUME NEW c \in Callers, NEW o \in Orders, prepare_checkout(c, o)
      PROVE PaymentTypeOK'
  <2> DEFINE row == [order[o] EXCEPT !.status = "checkout_requesting",
                                     !.checkout_claim = TRUE]
  <2>1. order \in [Orders -> OrderRow] /\ order[o] \in OrderRow
    BY DEF PaymentTypeOK
  <2>2. row \in OrderRow
    BY <2>1, StatusNames DEF OrderRow
  <2>3. order' = [order EXCEPT ![o] = row]
    BY <1>2, <2>1 DEF prepare_checkout
  <2>4. order' \in [Orders -> OrderRow]
    BY <2>1, <2>2, <2>3
  <2>5. QED
    BY <1>2, <2>4 DEF PaymentTypeOK, prepare_checkout, Begin, Call
<1>3. ASSUME NEW o \in Orders, prepare_checkout_expired(o)
      PROVE PaymentTypeOK'
  BY <1>3, StatusNames, OneFieldWritten DEF PaymentTypeOK, prepare_checkout_expired
<1>4. ASSUME NEW c \in Callers, create_live_checkout(c)
      PROVE PaymentTypeOK'
  <2> DEFINE q == call[c].order
  <2>1. q \in Orders /\ [call EXCEPT ![c] = NoCall] \in [Callers -> Call]
    BY <1>4, CallFacts DEF create_live_checkout
  <2>2. order' \in [Orders -> OrderRow]
    <3> DEFINE failed == [order[q] EXCEPT !.status = "pending_reconciliation",
                                          !.checkout_claim = FALSE]
               got == IF call[c].answer = "pending"
                      THEN "pending" ELSE "pending_reconciliation"
               answered == [order[q] EXCEPT !.status = got, !.txn = TRUE,
                                            !.url = TRUE, !.checkout_claim = FALSE]
    <3>1. order \in [Orders -> OrderRow] /\ order[q] \in OrderRow
      BY <2>1 DEF PaymentTypeOK
    <3>2. failed \in OrderRow /\ answered \in OrderRow
      <4> HIDE DEF q
      <4>1. QED
        BY <3>1, StatusNames DEF OrderRow
    <3>3. \/ order' = [order EXCEPT ![q] = failed]
          \/ order' = [order EXCEPT ![q] = answered]
          \/ order' = order
      BY <1>4, <2>1, <3>1 DEF create_live_checkout
    <3> HIDE DEF q, failed, answered
    <3>4. QED
      BY <2>1, <3>1, <3>2, <3>3
  <2>3. QED
    BY <1>4, <2>1, <2>2 DEF PaymentTypeOK, create_live_checkout, End
<1>5. QED
  BY <1>1, <1>2, <1>3, <1>4

(* A refund, whoever reports it.                                           *)
LEMMA RefundType ==
    ASSUME PaymentTypeOK, NEW o \in Orders, NEW key \in RefundKeys \cup {WebhookKey},
           apply_refund(o, key)
    PROVE  /\ user' \in {"active", "frozen"}
           /\ wallet' \in [balance : Nat, reserved : Nat]
           /\ ledger' \in [Accounts -> Int]
           /\ order' \in [Orders -> OrderRow]
           /\ refund' \in [Orders -> RefundRow]
           /\ outstanding' \in [Orders -> Nat]
<1>1. /\ wallet' \in [balance : Nat, reserved : Nat]
      /\ ledger' \in [Accounts -> Int]
      /\ recovered(o) \in Nat /\ recovered(o) <= CreditOf[o]
  BY RefundBooked DEF Booked
<1>2. CreditOf[o] \in Nat
  BY PaymentAssumption
<1>3. outstanding' \in [Orders -> Nat]
  BY <1>1, <1>2 DEF PaymentTypeOK, apply_refund
<1>4. order' \in [Orders -> OrderRow]
  <2> DEFINE row == [order[o] EXCEPT !.status = "refunded",
                                     !.reconciliation_claim = FALSE]
  <2>1. order \in [Orders -> OrderRow] /\ order[o] \in OrderRow
    BY DEF PaymentTypeOK
  <2>2. row \in OrderRow
    BY <2>1, StatusNames DEF OrderRow
  <2>3. order' = [order EXCEPT ![o] = row]
    BY <2>1 DEF apply_refund
  <2>4. QED
    BY <2>1, <2>2, <2>3
<1>5. refund' \in [Orders -> RefundRow]
  <2> DEFINE status == IF CreditOf[o] - recovered(o) = 0 THEN "refunded" ELSE "risk"
             row == [refund[o] EXCEPT !.status = status, !.key = key]
  <2>1. refund \in [Orders -> RefundRow] /\ refund[o] \in RefundRow
    BY DEF PaymentTypeOK
  <2>2. row \in RefundRow
    BY <2>1, StatusNames DEF RefundRow
  <2>3. refund' = [refund EXCEPT ![o] = row]
    BY <2>1 DEF apply_refund
  <2>4. QED
    BY <2>1, <2>2, <2>3
<1>6. QED
  BY <1>1, <1>3, <1>4, <1>5 DEF PaymentTypeOK, apply_refund

(* One event, from the webhook or from a reconciliation.                   *)
LEMMA EventType ==
    ASSUME PaymentTypeOK, NEW o \in Orders, NEW status \in IntentStates,
           NEW id \in EventIds \cup {ReconcileId}, apply_webhook(o, status, id)
    PROVE  /\ user' \in {"active", "frozen"}
           /\ wallet' \in [balance : Nat, reserved : Nat]
           /\ ledger' \in [Accounts -> Int]
           /\ order' \in [Orders -> OrderRow]
           /\ refund' \in [Orders -> RefundRow]
           /\ outstanding' \in [Orders -> Nat]
           /\ events' \subseteq Orders \X IntentStates \X (EventIds \cup {ReconcileId})
<1>1. events' \subseteq Orders \X IntentStates \X (EventIds \cup {ReconcileId})
  BY DEF PaymentTypeOK, apply_webhook
<1>2. CASE status \in {"pending", "failed", "closed"} /\ apply_open(o, status)
  <2> DEFINE requesting == order[o].status = "checkout_requesting"
             row == [order[o] EXCEPT
                       !.txn = TRUE,
                       !.reconciliation_claim = FALSE,
                       !.status = IF status # "pending" THEN status
                                  ELSE IF requesting THEN "pending_reconciliation"
                                  ELSE @,
                       !.checkout_claim = IF status # "pending" \/ requesting
                                          THEN FALSE ELSE @]
  <2>1. order \in [Orders -> OrderRow] /\ order[o] \in OrderRow
    BY DEF PaymentTypeOK
  <2>2. row \in OrderRow
    BY <1>2, <2>1, StatusNames DEF OrderRow
  <2>3. order' = [order EXCEPT ![o] = row]
    BY <1>2, <2>1 DEF apply_open
  <2>4. order' \in [Orders -> OrderRow]
    BY <2>1, <2>2, <2>3
  <2>5. QED
    BY <1>1, <1>2, <2>4 DEF PaymentTypeOK, apply_open
<1>3. CASE apply_paid(o)
  <2>1. wallet' \in [balance : Nat, reserved : Nat] /\ ledger' \in [Accounts -> Int]
    BY <1>3, CreditBooked DEF apply_paid, Booked
  <2>2. order' \in [Orders -> OrderRow]
    <3> DEFINE row == [order[o] EXCEPT !.status = "paid", !.txn = TRUE,
                                       !.checkout_claim = FALSE,
                                       !.reconciliation_claim = FALSE]
    <3>1. order \in [Orders -> OrderRow] /\ order[o] \in OrderRow
      BY DEF PaymentTypeOK
    <3>2. row \in OrderRow
      BY <3>1, StatusNames DEF OrderRow
    <3>3. order' = [order EXCEPT ![o] = row]
      BY <1>3, <3>1 DEF apply_paid
    <3>4. QED
      BY <3>1, <3>2, <3>3
  <2>3. QED
    BY <1>1, <1>3, <2>1, <2>2 DEF PaymentTypeOK, apply_paid
<1>4. CASE apply_refunded(o)
  <2>1. CASE order[o].status = "refunded"
    BY <1>1, <1>4, <2>1 DEF PaymentTypeOK, apply_refunded
  <2>2. CASE order[o].status # "refunded"
    <3>1. PICK key \in RefundKeys \cup {WebhookKey} : apply_refund(o, key)
      <4>1. refund[o].key \in RefundKeys \cup {WebhookKey}
        BY DEF PaymentTypeOK, RefundRow
      <4>2. QED
        BY <1>4, <2>2, <4>1 DEF apply_refunded
    <3>2. QED
      BY <1>1, <3>1, RefundType
  <2>3. QED
    BY <2>1, <2>2
<1>5. QED
  BY <1>2, <1>3, <1>4 DEF apply_webhook

(* POST /ops/payments/{order_id}/reconcile.                                *)
LEMMA ReconcileType ==
    ASSUME PaymentTypeOK, NEW c \in Callers,
           \/ \E o \in Orders : reconcile_claims(c, o)
           \/ reconcile_keeps(c) \/ reconcile_applies(c) \/ reconcile_finishes(c)
    PROVE  PaymentTypeOK'
<1>1. ASSUME NEW o \in Orders, reconcile_claims(c, o)
      PROVE PaymentTypeOK'
  <2> DEFINE row == [order[o] EXCEPT
                       !.status = "pending_reconciliation",
                       !.reconciliation_claim = TRUE,
                       !.checkout_claim = IF order[o].status = "checkout_requesting"
                                          THEN FALSE ELSE @]
  <2>1. order \in [Orders -> OrderRow] /\ order[o] \in OrderRow
    BY DEF PaymentTypeOK
  <2>2. row \in OrderRow
    BY <2>1, StatusNames DEF OrderRow
  <2>3. order' = [order EXCEPT ![o] = row]
    BY <1>1, <2>1 DEF reconcile_claims
  <2>4. order' \in [Orders -> OrderRow]
    BY <2>1, <2>2, <2>3
  <2>5. QED
    BY <1>1, <2>4 DEF PaymentTypeOK, reconcile_claims, Begin, Call
<1>2. CASE reconcile_keeps(c)
  <2> DEFINE q == call[c].order
  <2>1. q \in Orders /\ [call EXCEPT ![c] = NoCall] \in [Callers -> Call]
    BY <1>2, CallFacts DEF reconcile_keeps
  <2>2. \/ order' = [order EXCEPT ![q].status = "pending_reconciliation"]
        \/ order' = order
    BY <1>2 DEF reconcile_keeps
  <2>3. order' \in [Orders -> OrderRow]
    <3> HIDE DEF q
    <3>1. "pending_reconciliation" \in OrderStatuses
      BY StatusNames
    <3>2. /\ order \in [Orders -> OrderRow]
          /\ [order EXCEPT ![q].status = "pending_reconciliation"] \in [Orders -> OrderRow]
      BY <2>1, <3>1, OneFieldWritten
    <3>3. QED
      BY <2>2, <3>2
  <2>4. QED
    BY <1>2, <2>1, <2>3 DEF PaymentTypeOK, reconcile_keeps, End
<1>3. CASE reconcile_applies(c)
  <2> DEFINE q == call[c].order
             a == call[c].answer
  <2>1. /\ q \in Orders /\ a \in IntentStates
        /\ [call EXCEPT ![c] = NoCall] \in [Callers -> Call]
    BY <1>3, CallFacts DEF reconcile_applies, Reconciled, IntentStates
  <2>2. [call EXCEPT ![c].answer = "applied"] \in [Callers -> Call]
    BY <1>3 DEF reconcile_applies, PaymentTypeOK, Call, NoCall
  <2>3. call' \in [Callers -> Call]
    BY <1>3, <2>1, <2>2 DEF reconcile_applies, End
  <2>4. CASE apply_webhook(q, a, ReconcileId)
    <3> HIDE DEF q, a
    <3>1. /\ user' \in {"active", "frozen"}
          /\ wallet' \in [balance : Nat, reserved : Nat]
          /\ ledger' \in [Accounts -> Int]
          /\ order' \in [Orders -> OrderRow]
          /\ refund' \in [Orders -> RefundRow]
          /\ outstanding' \in [Orders -> Nat]
          /\ events' \subseteq Orders \X IntentStates \X (EventIds \cup {ReconcileId})
      BY <2>1, <2>4, EventType
    <3>2. QED
      BY <1>3, <2>3, <3>1 DEF PaymentTypeOK, reconcile_applies
  <2>5. CASE UNCHANGED <<user, wallet, ledger, order, refund, outstanding, events>>
    BY <1>3, <2>3, <2>5 DEF PaymentTypeOK, reconcile_applies
  <2>6. QED
    BY <1>3, <2>4, <2>5 DEF reconcile_applies
<1>4. CASE reconcile_finishes(c)
  <2>1. call[c].order \in Orders /\ [call EXCEPT ![c] = NoCall] \in [Callers -> Call]
    BY <1>4, CallFacts DEF reconcile_finishes
  <2>2. QED
    BY <1>4, <2>1, OneFieldWritten DEF PaymentTypeOK, reconcile_finishes, End
<1>5. QED
  BY <1>1, <1>2, <1>3, <1>4

(* POST /ops/payments/{order_id}/refund and .../risk-disposition.          *)
LEMMA RefundCommandType ==
    ASSUME PaymentTypeOK,
           \/ \E c \in Callers, o \in Orders, key \in RefundKeys :
                 prepare_refund(c, o, key)
           \/ \E c \in Callers : refund_live_payment(c)
           \/ \E o \in Orders, action \in {"recover_available", "write_off"} :
                 resolve_refund_risk(o, action)
    PROVE  PaymentTypeOK'
<1>1. ASSUME NEW c \in Callers, NEW o \in Orders,
             NEW key \in RefundKeys, prepare_refund(c, o, key)
      PROVE PaymentTypeOK'
  <2>1. call' \in [Callers -> Call] /\ sent' \in [Orders -> SUBSET RefundKeys]
    BY <1>1 DEF PaymentTypeOK, prepare_refund, Begin, Call
  <2>2. order' \in [Orders -> OrderRow]
    <3>1. order' = order \/ order' = [order EXCEPT ![o].status = "refunding"]
      BY <1>1 DEF prepare_refund
    <3>2. "refunding" \in OrderStatuses
      BY StatusNames
    <3>3. /\ order \in [Orders -> OrderRow]
          /\ [order EXCEPT ![o].status = "refunding"] \in [Orders -> OrderRow]
      BY <3>2, OneFieldWritten
    <3>4. QED
      BY <3>1, <3>3
  <2>3. refund' \in [Orders -> RefundRow]
    <3>1. refund \in [Orders -> RefundRow] /\ refund[o] \in RefundRow
      BY DEF PaymentTypeOK
    <3>2. PICK row \in RefundRow : refund' = [refund EXCEPT ![o] = row]
      <4> DEFINE first == [status |-> "requesting", key |-> key, claim |-> TRUE]
                 next == [refund[o] EXCEPT
                            !.status = IF @ = "requesting" THEN "retrying"
                                       ELSE "requesting",
                            !.claim = TRUE]
                 again == [refund[o] EXCEPT !.status = "requesting", !.claim = TRUE]
      <4>1. first \in RefundRow /\ next \in RefundRow /\ again \in RefundRow
        BY <3>1, StatusNames DEF RefundRow
      <4>2. \/ refund' = [refund EXCEPT ![o] = first]
            \/ refund' = [refund EXCEPT ![o] = next]
            \/ refund' = [refund EXCEPT ![o] = again]
        BY <1>1, <3>1 DEF prepare_refund
      <4> HIDE DEF first, next, again
      <4>3. QED
        BY <4>1, <4>2
    <3>3. QED
      BY <3>1, <3>2
  <2>4. QED
    BY <1>1, <2>1, <2>2, <2>3 DEF PaymentTypeOK, prepare_refund
<1>2. ASSUME NEW c \in Callers, refund_live_payment(c)
      PROVE PaymentTypeOK'
  <2> DEFINE q == call[c].order
             k == call[c].key
  <2>1. /\ q \in Orders /\ k \in RefundKeys \cup {WebhookKey}
        /\ [call EXCEPT ![c] = NoCall] \in [Callers -> Call]
    BY <1>2, CallFacts DEF refund_live_payment
  <2>2. CASE /\ park_refund(q)
             /\ UNCHANGED <<user, wallet, ledger, order, outstanding>>
    <3>1. refund' \in [Orders -> RefundRow]
      <4> HIDE DEF q
      <4>1. QED
        BY <2>1, <2>2, StatusNames, OneFieldWritten DEF park_refund
    <3>2. QED
      BY <1>2, <2>1, <2>2, <3>1 DEF PaymentTypeOK, refund_live_payment, End
  <2>3. CASE apply_refund(q, k)
    <3>1. /\ user' \in {"active", "frozen"}
          /\ wallet' \in [balance : Nat, reserved : Nat]
          /\ ledger' \in [Accounts -> Int]
          /\ order' \in [Orders -> OrderRow]
          /\ refund' \in [Orders -> RefundRow]
          /\ outstanding' \in [Orders -> Nat]
      <4> HIDE DEF q, k
      <4>1. QED
        BY <2>1, <2>3, RefundType
    <3>2. QED
      BY <1>2, <2>1, <3>1 DEF PaymentTypeOK, refund_live_payment, End
  <2>4. CASE UNCHANGED <<user, wallet, ledger, order, refund, outstanding>>
    BY <1>2, <2>1, <2>4 DEF PaymentTypeOK, refund_live_payment, End
  <2>5. QED
    BY <1>2, <2>2, <2>3, <2>4 DEF refund_live_payment
<1>3. ASSUME NEW o \in Orders,
             NEW action \in {"recover_available", "write_off"}, resolve_refund_risk(o, action)
      PROVE PaymentTypeOK'
  <2>1. wallet' \in [balance : Nat, reserved : Nat] /\ ledger' \in [Accounts -> Int]
    BY <1>3, ResolveBooked DEF Booked
  <2>2. outstanding' \in [Orders -> Nat] /\ refund' \in [Orders -> RefundRow]
    BY <1>3, StatusNames, OneFieldWritten DEF PaymentTypeOK, resolve_refund_risk
  <2>3. QED
    BY <1>3, <2>1, <2>2 DEF PaymentTypeOK, resolve_refund_risk
<1>4. QED
  BY <1>1, <1>2, <1>3

(* The account, the wallet's other users, time, crashes and the provider.  *)
LEMMA SurroundingsType ==
    ASSUME PaymentTypeOK,
           \/ freeze \/ unfreeze
           \/ \E o \in Orders : lease_expires(o) \/ provider_moves(o)
           \/ \E c \in Callers : crash(c) \/ provider_answers(c)
    PROVE  PaymentTypeOK'
<1>1. CASE freeze \/ unfreeze
  BY <1>1 DEF PaymentTypeOK, freeze, unfreeze
<1>2. ASSUME NEW o \in Orders, lease_expires(o)
      PROVE PaymentTypeOK'
  <2>1. \/ order' = [order EXCEPT ![o].checkout_claim = FALSE] /\ refund' = refund
        \/ order' = [order EXCEPT ![o].reconciliation_claim = FALSE] /\ refund' = refund
        \/ order' = order /\ refund' = [refund EXCEPT ![o].claim = FALSE]
    BY <1>2 DEF lease_expires
  <2>2. order' \in [Orders -> OrderRow]
    BY <2>1, OneFieldWritten
  <2>3. refund' \in [Orders -> RefundRow]
    BY <2>1, OneFieldWritten
  <2>4. QED
    BY <1>2, <2>2, <2>3 DEF PaymentTypeOK, lease_expires
<1>3. ASSUME NEW c \in Callers, crash(c)
      PROVE PaymentTypeOK'
  BY <1>3 DEF PaymentTypeOK, crash, End, Call
<1>4. ASSUME NEW o \in Orders, provider_moves(o)
      PROVE PaymentTypeOK'
  BY <1>4 DEF PaymentTypeOK, provider_moves
<1>5. ASSUME NEW c \in Callers, provider_answers(c)
      PROVE PaymentTypeOK'
  BY <1>5 DEF PaymentTypeOK, provider_answers, Call, NoCall
<1>6. QED
  BY <1>1, <1>2, <1>3, <1>4, <1>5

LEMMA HoldType ==
    ASSUME PaymentTypeOK, NEW n \in HoldAmounts,
           hold_credit(n) \/ \E charged \in 0..n : finalize_hold(n, charged)
    PROVE  PaymentTypeOK'
<1>1. wallet' \in [balance : Nat, reserved : Nat] /\ ledger' \in [Accounts -> Int]
  BY HoldBooked, FinalizeBooked DEF Booked
<1>2. UNCHANGED <<user, order, refund, outstanding, events, call, intent, asked, sent>>
  BY DEF hold_credit, finalize_hold
<1>3. QED
  BY <1>1, <1>2 DEF PaymentTypeOK

LEMMA PaymentTypeInit == PaymentInit => PaymentTypeOK
<1>1. EmptyLedger \in [Accounts -> Int]
  BY DEF EmptyLedger
<1>2. NoOrder \in OrderRow /\ NoRefund \in RefundRow /\ NoCall \in Call
  BY StatusNames DEF NoOrder, OrderRow, NoRefund, RefundRow, Call
<1>3. QED
  BY <1>1, <1>2 DEF PaymentInit, PaymentTypeOK, IntentStates

LEMMA PaymentTypeStep ==
    PaymentTypeOK /\ [PaymentNext]_paymentVars => PaymentTypeOK'
<1> SUFFICES ASSUME PaymentTypeOK, [PaymentNext]_paymentVars PROVE PaymentTypeOK'
  OBVIOUS
<1>1. CASE \E o \in Orders, status \in IntentStates, id \in EventIds :
              live_payment_webhook(o, status, id)
  <2>1. PICK o \in Orders, status \in IntentStates, id \in EventIds :
              live_payment_webhook(o, status, id)
    BY <1>1
  <2>2. apply_webhook(o, status, id) /\ UNCHANGED <<call, intent, asked, sent>>
    BY <2>1 DEF live_payment_webhook
  <2>3. QED
    BY <2>2, EventType DEF PaymentTypeOK
<1>2. CASE UNCHANGED paymentVars
  BY <1>2 DEF PaymentTypeOK, paymentVars
<1>3. CASE \E n \in HoldAmounts :
              hold_credit(n) \/ \E charged \in 0..n : finalize_hold(n, charged)
  BY <1>3, HoldType
<1>4. QED
  BY <1>1, <1>2, <1>3, CheckoutType, ReconcileType, RefundCommandType,
     SurroundingsType DEF PaymentNext

(* Every reachable state is well typed: in particular the wallet never     *)
(* goes negative, though refunds take back credit that has been spent, and *)
(* no shortfall is ever less than nothing.                                 *)
THEOREM PaymentTypeCorrect == PaymentSpec => []PaymentTypeOK
  BY PaymentTypeInit, PaymentTypeStep, PTL DEF PaymentSpec

-----------------------------------------------------------------------------
(* What the gateway has been told is true                                  *)

(* An answer that a caller has not applied yet was true of the intent when *)
(* it was given, and so is part of what the intent has been.               *)
AnswersTrue ==
    \A c \in Callers : call[c].kind # "none" =>
        call[c].answer \in {"none", "error", "refunding", "applied"}
                             \cup Past(call[c].order)

(* Which steps move an intent, make a checkout call, make a refund call.   *)
LEMMA StepFrames ==
    ASSUME [PaymentNext]_paymentVars
    PROVE  /\ UNCHANGED intent \/ \E o \in Orders : provider_moves(o)
           /\ \/ UNCHANGED asked
              \/ \E c \in Callers, o \in Orders : prepare_checkout(c, o)
           /\ \/ UNCHANGED sent
              \/ \E c \in Callers, o \in Orders, key \in RefundKeys :
                    prepare_refund(c, o, key)
<1>1. CASE \E o \in Orders :
              \/ create_order(o)
              \/ prepare_checkout_expired(o)
              \/ \E status \in IntentStates, id \in EventIds :
                    live_payment_webhook(o, status, id)
              \/ \E action \in {"recover_available", "write_off"} :
                    resolve_refund_risk(o, action)
              \/ lease_expires(o)
  BY <1>1 DEF create_order, prepare_checkout_expired, live_payment_webhook,
              resolve_refund_risk, lease_expires
<1>2. CASE \E c \in Callers :
              \/ \E o \in Orders : reconcile_claims(c, o)
              \/ provider_answers(c)
              \/ create_live_checkout(c)
              \/ reconcile_keeps(c) \/ reconcile_applies(c) \/ reconcile_finishes(c)
              \/ refund_live_payment(c)
              \/ crash(c)
  BY <1>2 DEF reconcile_claims, provider_answers, create_live_checkout,
              reconcile_keeps, reconcile_applies, reconcile_finishes,
              refund_live_payment, crash
<1>3. CASE \/ freeze \/ unfreeze
           \/ \E n \in HoldAmounts :
                 hold_credit(n) \/ \E charged \in 0..n : finalize_hold(n, charged)
           \/ UNCHANGED paymentVars
  BY <1>3 DEF freeze, unfreeze, hold_credit, finalize_hold, paymentVars
<1>4. CASE \E o \in Orders : provider_moves(o)
  BY <1>4 DEF provider_moves
<1>5. CASE \E c \in Callers, o \in Orders : prepare_checkout(c, o)
  BY <1>5 DEF prepare_checkout
<1>6. CASE \E c \in Callers, o \in Orders, key \in RefundKeys : prepare_refund(c, o, key)
  BY <1>6 DEF prepare_refund
<1>7. QED
  BY <1>1, <1>2, <1>3, <1>4, <1>5, <1>6 DEF PaymentNext

(* What an intent has been it will always have been.                       *)
LEMMA PastGrows ==
    ASSUME PaymentTypeOK, [PaymentNext]_paymentVars, NEW o \in Orders
    PROVE  /\ Past(o) \subseteq Past(o)'
           /\ intent'[o] # intent[o] => <<intent[o], intent'[o]>> \in Moves
<1>1. \/ UNCHANGED intent
      \/ \E q \in Orders : provider_moves(q)
  BY StepFrames
<1>2. CASE UNCHANGED intent
  BY <1>2 DEF Past
<1>3. CASE \E q \in Orders : provider_moves(q)
  <2>1. intent'[o] # intent[o] => <<intent[o], intent'[o]>> \in Moves
    BY <1>3, PaymentAssumption DEF provider_moves, PaymentTypeOK
  <2>2. intent'[o] = intent[o] => Past(o)' = Past(o)
    BY DEF Past
  <2>3. ASSUME <<intent[o], intent'[o]>> \in Moves PROVE Past(o) \subseteq Past(o)'
    BY <2>3 DEF Past, Moves
  <2>4. QED
    BY <2>1, <2>2, <2>3
<1>4. QED
  BY <1>1, <1>2, <1>3

LEMMA AnswersInit == PaymentInit => AnswersTrue
  BY DEF PaymentInit, AnswersTrue, NoCall

LEMMA AnswersStep ==
    PaymentTypeOK /\ AnswersTrue /\ [PaymentNext]_paymentVars => AnswersTrue'
<1> SUFFICES ASSUME PaymentTypeOK, AnswersTrue, [PaymentNext]_paymentVars,
                    NEW c \in Callers, call'[c].kind # "none",
                    NEW o, o = call'[c].order
             PROVE  call'[c].answer \in {"none", "error", "refunding", "applied"}
                                          \cup Past(o)'
  BY DEF AnswersTrue, Past
<1>1. \/ call'[c] = call[c]
      \/ call'[c] = NoCall
      \/ call'[c].answer = "none"
      \/ call'[c].answer = "applied"
      \/ provider_answers(c)
  <2>1. ASSUME NEW d \in Callers, End(d) PROVE call'[c] \in {call[c], NoCall}
    BY <2>1 DEF PaymentTypeOK, End
  <2>2. ASSUME NEW d \in Callers, NEW q, NEW kind, NEW key, Begin(d, q, kind, key)
        PROVE  call'[c] = call[c] \/ call'[c].answer = "none"
    BY <2>2 DEF PaymentTypeOK, Begin
  <2>3. ASSUME NEW d \in Callers, reconcile_applies(d)
        PROVE  \/ call'[c] \in {call[c], NoCall} \/ call'[c].answer = "applied"
    <3>1. End(d) \/ call' = [call EXCEPT ![d].answer = "applied"]
      BY <2>3 DEF reconcile_applies
    <3>2. call[d].kind # "none"
      BY <2>3 DEF reconcile_applies
    <3>3. call[d] \in Call /\ call[d] # NoCall
      BY <3>2 DEF PaymentTypeOK, NoCall
    <3>4. QED
      BY <2>1, <3>1, <3>3 DEF PaymentTypeOK, Call
  <2>4. ASSUME NEW d \in Callers, provider_answers(d), d # c PROVE call'[c] = call[c]
    BY <2>4 DEF PaymentTypeOK, provider_answers
  <2>5. CASE \/ \E q \in Orders :
                  \/ create_order(q)
                  \/ prepare_checkout_expired(q)
                  \/ \E status \in IntentStates, id \in EventIds :
                        live_payment_webhook(q, status, id)
                  \/ \E action \in {"recover_available", "write_off"} :
                        resolve_refund_risk(q, action)
                  \/ lease_expires(q)
                  \/ provider_moves(q)
             \/ freeze \/ unfreeze
             \/ \E n \in HoldAmounts :
                   hold_credit(n) \/ \E charged \in 0..n : finalize_hold(n, charged)
             \/ UNCHANGED paymentVars
    <3>1. UNCHANGED call
      BY <2>5 DEF create_order, prepare_checkout_expired, live_payment_webhook,
                  resolve_refund_risk, lease_expires, provider_moves, freeze,
                  unfreeze, hold_credit, finalize_hold, paymentVars
    <3>2. QED
      BY <3>1
  <2>6. CASE \E d \in Callers :
                \/ create_live_checkout(d)
                \/ reconcile_keeps(d) \/ reconcile_finishes(d)
                \/ refund_live_payment(d)
                \/ crash(d)
    <3>1. \E d \in Callers : End(d)
      BY <2>6 DEF create_live_checkout, reconcile_keeps, reconcile_finishes,
                  refund_live_payment, crash
    <3>2. QED
      BY <2>1, <3>1
  <2>7. CASE \E d \in Callers :
                \/ \E q \in Orders : prepare_checkout(d, q) \/ reconcile_claims(d, q)
                \/ \E q \in Orders, key \in RefundKeys : prepare_refund(d, q, key)
    <3>1. \E d \in Callers : \E q, kind, key : Begin(d, q, kind, key)
      BY <2>7 DEF prepare_checkout, reconcile_claims, prepare_refund
    <3>2. QED
      BY <2>2, <3>1
  <2>8. QED
    BY <2>3, <2>4, <2>5, <2>6, <2>7 DEF PaymentNext
<1>2. CASE call'[c] = call[c]
  <2>1. o \in Orders /\ o = call[c].order
    BY <1>2, CallFacts
  <2>2. Past(o) \subseteq Past(o)'
    BY <2>1, PastGrows
  <2>3. call[c].answer \in {"none", "error", "refunding", "applied"} \cup Past(o)
    BY <1>2, <2>1 DEF AnswersTrue
  <2>4. QED
    BY <1>2, <2>2, <2>3
<1>3. CASE provider_answers(c)
  <2>1. call[c].kind # "none" /\ UNCHANGED intent
    BY <1>3 DEF provider_answers
  <2>2. call[c].order \in Orders /\ call[c] \in Call /\ call[c] # NoCall
    BY <2>1, CallFacts DEF PaymentTypeOK, NoCall
  <2>3. PICK a \in Answers :
          /\ \/ a = "error"
             \/ a = intent[call[c].order]
             \/ a = "refunding"
          /\ call' = [call EXCEPT ![c].answer = a]
    BY <1>3 DEF provider_answers
  <2>4. call'[c].answer = a /\ call'[c].order = call[c].order
    BY <2>2, <2>3 DEF PaymentTypeOK, Call
  <2>5. CASE a = intent[call[c].order] /\ a # "refunding" /\ a # "error"
    <3>1. a \in {"pending", "paid", "failed", "closed", "refunded"}
      BY <2>5 DEF Answers, IntentStates
    <3>2. intent'[o] = a
      BY <2>1, <2>4, <2>5
    <3>3. a \in Past(o)'
      BY <3>1, <3>2 DEF Past
    <3>4. QED
      BY <2>4, <3>3
  <2>6. QED
    BY <2>3, <2>4, <2>5
<1>4. QED
  BY <1>1, <1>2, <1>3 DEF NoCall

-----------------------------------------------------------------------------
(* How the rows of one order go                                            *)

(* An order's status moves forward, to where the intent has been; an order *)
(* that is pending again has its transaction id, and keeps it.             *)
OrderStep(o) ==
    LET s == order[o].status
        t == order'[o].status
    IN  /\ \/ t = s
           \/ s = "absent" /\ t = "pending" /\ create_order(o)
           \/ s \in OPEN_CHECKOUT_STATUSES /\ t \in OPEN_CHECKOUT_STATUSES
           \/ s \in OPEN_CHECKOUT_STATUSES /\ t \in {"failed", "closed", "paid"} \cap Past(o)
           \/ s = "paid" /\ t = "refunding"
           \/ s \in {"paid", "refunding"} /\ t \in {"refunded"} \cap Past(o)
        /\ order[o].txn => order'[o].txn
        /\ t = "pending" => s \in {"absent", "pending"} \/ order'[o].txn

(* A refund's status moves forward, and its key is its key for good.       *)
RefundStep(o) ==
    LET s == refund[o].status
        t == refund'[o].status
    IN  /\ \/ t = s
           \/ s = "absent" /\ t \in ActiveRefund \cup {"refunded", "risk"}
           \/ s \in ActiveRefund /\ t \in ActiveRefund \cup {"refunded", "risk"}
           \/ s = "risk" /\ t = "resolved"
        /\ s # "absent" => refund'[o].key = refund[o].key

SameOrder(o) == order'[o] = order[o]
SameRefund(o) == refund'[o] = refund[o]

(* Writing the status of a row of its own cannot disturb another's.        *)
LEMMA SameRow ==
    ASSUME PaymentTypeOK, NEW o \in Orders
    PROVE  /\ SameOrder(o) => OrderStep(o)
           /\ SameRefund(o) => RefundStep(o)
  BY DEF SameOrder, SameRefund, OrderStep, RefundStep

LEMMA CheckoutRow ==
    ASSUME PaymentTypeOK, NEW o \in Orders, NEW q \in Orders,
           \/ create_order(q) \/ prepare_checkout_expired(q)
           \/ \E c \in Callers : prepare_checkout(c, q)
    PROVE  OrderStep(o) /\ SameRefund(o)
<1>1. order \in [Orders -> OrderRow] /\ SameRefund(o)
  BY DEF PaymentTypeOK, create_order, prepare_checkout_expired, prepare_checkout,
         SameRefund
<1>2. CASE o # q
  BY <1>1, <1>2, SameRow DEF create_order, prepare_checkout_expired,
         prepare_checkout, SameOrder
<1>3. CASE o = q
  BY <1>1, <1>3 DEF create_order, prepare_checkout_expired, prepare_checkout,
         checkout_claimable, OrderStep, OrderRow, OPEN_CHECKOUT_STATUSES
<1>4. QED
  BY <1>2, <1>3

LEMMA CheckoutAnswerRow ==
    ASSUME PaymentTypeOK, NEW o \in Orders, NEW c \in Callers, create_live_checkout(c)
    PROVE  OrderStep(o) /\ SameRefund(o)
<1> DEFINE q == call[c].order
<1>1. order \in [Orders -> OrderRow] /\ SameRefund(o) /\ q \in Orders
  BY CallFacts DEF PaymentTypeOK, create_live_checkout, SameRefund
<1>2. CASE o # q
  BY <1>1, <1>2, SameRow DEF create_live_checkout, SameOrder
<1>3. CASE o = q
  BY <1>1, <1>3 DEF create_live_checkout, OrderStep, OrderRow, OPEN_CHECKOUT_STATUSES
<1>4. QED
  BY <1>2, <1>3

(* The refund of an order is one that the provider has made.               *)
LEMMA ApplyRefundRow ==
    ASSUME PaymentTypeOK, NEW o \in Orders, NEW q \in Orders, NEW key,
           apply_refund(q, key), "refunded" \in Past(q)
    PROVE  OrderStep(o) /\ RefundStep(o)
<1>1. order \in [Orders -> OrderRow] /\ refund \in [Orders -> RefundRow]
  BY DEF PaymentTypeOK
<1>2. CASE o # q
  BY <1>1, <1>2, SameRow DEF apply_refund, SameOrder, SameRefund
<1>3. CASE o = q
  <2>1. /\ order'[o].status = "refunded"
        /\ order'[o].txn = order[o].txn
        /\ order[o].status \in {"paid", "refunding"}
    BY <1>1, <1>3 DEF apply_refund, refundable, OrderRow
  <2>2. /\ refund'[o].status \in {"refunded", "risk"}
        /\ refund'[o].key = key
        /\ \/ refund[o].status = "absent"
           \/ refund[o].status \in ActiveRefund /\ refund[o].key = key
    BY <1>1, <1>3 DEF apply_refund, refundable, RefundRow
  <2>3. OrderStep(o)
    BY <1>3, <2>1 DEF OrderStep
  <2>4. RefundStep(o)
    BY <2>2 DEF RefundStep, ActiveRefund
  <2>5. QED
    BY <2>3, <2>4
<1>4. QED
  BY <1>2, <1>3

LEMMA EventRow ==
    ASSUME PaymentTypeOK, NEW o \in Orders, NEW q \in Orders, NEW status, NEW id,
           apply_webhook(q, status, id), status \in Past(q)
    PROVE  OrderStep(o) /\ RefundStep(o)
<1>1. order \in [Orders -> OrderRow] /\ refund \in [Orders -> RefundRow]
  BY DEF PaymentTypeOK
<1>2. CASE status \in {"pending", "failed", "closed"} /\ apply_open(q, status)
  <2>1. RefundStep(o)
    BY <1>2, SameRow DEF apply_open, SameRefund
  <2>2. CASE o # q
    BY <1>1, <1>2, <2>1, <2>2, SameRow DEF apply_open, SameOrder
  <2>3. CASE o = q
    <3>1. /\ order'[o].txn
          /\ order[o].status \in OPEN_CHECKOUT_STATUSES
          /\ order'[o].status =
               IF status # "pending" THEN status
               ELSE IF order[o].status = "checkout_requesting"
                    THEN "pending_reconciliation" ELSE order[o].status
      BY <1>1, <1>2, <2>3 DEF apply_open, OrderRow
    <3>2. QED
      BY <1>2, <2>1, <2>3, <3>1 DEF OrderStep, OPEN_CHECKOUT_STATUSES
  <2>4. QED
    BY <2>2, <2>3
<1>3. CASE status = "paid" /\ apply_paid(q)
  <2>1. RefundStep(o)
    BY <1>3, SameRow DEF apply_paid, SameRefund
  <2>2. CASE o # q
    BY <1>1, <1>3, <2>1, <2>2, SameRow DEF apply_paid, SameOrder
  <2>3. CASE o = q
    <3>1. /\ order'[o].txn
          /\ order[o].status \in OPEN_CHECKOUT_STATUSES
          /\ order'[o].status = "paid"
      BY <1>1, <1>3, <2>3 DEF apply_paid, creditable, OrderRow
    <3>2. QED
      BY <1>3, <2>1, <2>3, <3>1 DEF OrderStep
  <2>4. QED
    BY <2>2, <2>3
<1>4. CASE status = "refunded" /\ apply_refunded(q)
  <2>1. CASE UNCHANGED <<order, refund>>
    BY <2>1, SameRow DEF SameOrder, SameRefund
  <2>2. CASE \E key : apply_refund(q, key)
    BY <1>4, <2>2, ApplyRefundRow
  <2>3. QED
    BY <1>4, <2>1, <2>2 DEF apply_refunded
<1>5. QED
  BY <1>2, <1>3, <1>4 DEF apply_webhook

LEMMA ReconcileRow ==
    ASSUME PaymentTypeOK, AnswersTrue, NEW o \in Orders, NEW c \in Callers,
           \/ \E q \in Orders : reconcile_claims(c, q)
           \/ reconcile_keeps(c) \/ reconcile_applies(c) \/ reconcile_finishes(c)
    PROVE  OrderStep(o) /\ RefundStep(o)
<1>1. order \in [Orders -> OrderRow]
  BY DEF PaymentTypeOK
<1>2. ASSUME NEW q \in Orders, reconcile_claims(c, q) PROVE OrderStep(o) /\ RefundStep(o)
  <2>1. RefundStep(o)
    BY <1>2, SameRow DEF reconcile_claims, SameRefund
  <2>2. CASE o # q
    BY <1>1, <1>2, <2>1, <2>2, SameRow DEF reconcile_claims, SameOrder
  <2>3. CASE o = q
    <3>1. /\ order'[o].txn = order[o].txn
          /\ order[o].status \in OPEN_CHECKOUT_STATUSES
          /\ order'[o].status = "pending_reconciliation"
      BY <1>1, <1>2, <2>3 DEF reconcile_claims, OrderRow, OPEN_CHECKOUT_STATUSES
    <3>2. QED
      BY <2>1, <3>1 DEF OrderStep, OPEN_CHECKOUT_STATUSES
  <2>4. QED
    BY <2>2, <2>3
<1> DEFINE q == call[c].order
<1>3. CASE reconcile_keeps(c)
  <2>1. RefundStep(o) /\ q \in Orders
    BY <1>3, SameRow, CallFacts DEF reconcile_keeps, SameRefund
  <2>2. order' = order \/
          /\ order[q].status \in {"pending", "pending_reconciliation"}
          /\ order' = [order EXCEPT ![q].status = "pending_reconciliation"]
    BY <1>3 DEF reconcile_keeps
  <2>3. CASE order' = order \/ o # q
    BY <1>1, <2>1, <2>2, <2>3, SameRow DEF SameOrder
  <2>4. CASE order' # order /\ o = q
    BY <1>1, <2>1, <2>2, <2>4 DEF OrderStep, OPEN_CHECKOUT_STATUSES, OrderRow
  <2>5. QED
    BY <2>3, <2>4
<1>4. CASE reconcile_applies(c)
  <2>1. CASE apply_webhook(q, call[c].answer, ReconcileId)
    <3>1. q \in Orders /\ call[c].answer \in Past(q)
      BY <1>4, CallFacts DEF reconcile_applies, AnswersTrue, Reconciled
    <3>2. QED
      BY <2>1, <3>1, EventRow
  <2>2. CASE UNCHANGED <<order, refund>>
    BY <2>2, SameRow DEF SameOrder, SameRefund
  <2>3. QED
    BY <1>4, <2>1, <2>2 DEF reconcile_applies
<1>5. CASE reconcile_finishes(c)
  <2>1. RefundStep(o) /\ q \in Orders
    BY <1>5, SameRow, CallFacts DEF reconcile_finishes, SameRefund
  <2>2. order'[o].status = order[o].status /\ order'[o].txn = order[o].txn
    BY <1>1, <1>5, <2>1 DEF reconcile_finishes, OrderRow
  <2>3. QED
    BY <2>1, <2>2 DEF OrderStep
<1>6. QED
  BY <1>2, <1>3, <1>4, <1>5

LEMMA RefundCommandRow ==
    ASSUME PaymentTypeOK, AnswersTrue, NEW o \in Orders,
           \/ \E c \in Callers, q \in Orders, key \in RefundKeys :
                 prepare_refund(c, q, key)
           \/ \E c \in Callers : refund_live_payment(c)
           \/ \E q \in Orders, action \in {"recover_available", "write_off"} :
                 resolve_refund_risk(q, action)
    PROVE  OrderStep(o) /\ RefundStep(o)
<1>1. order \in [Orders -> OrderRow] /\ refund \in [Orders -> RefundRow]
  BY DEF PaymentTypeOK
<1>2. ASSUME NEW c \in Callers, NEW q \in Orders, NEW key \in RefundKeys,
             prepare_refund(c, q, key)
      PROVE  OrderStep(o) /\ RefundStep(o)
  <2>1. CASE o # q
    BY <1>1, <1>2, <2>1, SameRow DEF prepare_refund, SameOrder, SameRefund
  <2>2. CASE o = q
    <3>1. /\ order'[o].txn = order[o].txn
          /\ \/ order'[o].status = order[o].status
             \/ order[o].status = "paid" /\ order'[o].status = "refunding"
      BY <1>1, <1>2, <2>2 DEF prepare_refund, OrderRow
    <3>2. /\ refund'[o].status \in ActiveRefund
          /\ \/ refund[o].status = "absent"
             \/ refund[o].status \in ActiveRefund /\ refund'[o].key = refund[o].key
      BY <1>1, <1>2, <2>2 DEF prepare_refund, RefundRow, ActiveRefund
    <3>3. QED
      BY <3>1, <3>2 DEF OrderStep, RefundStep, ActiveRefund
  <2>3. QED
    BY <2>1, <2>2
<1>3. ASSUME NEW c \in Callers, refund_live_payment(c) PROVE OrderStep(o) /\ RefundStep(o)
  <2> DEFINE q == call[c].order
  <2>1. q \in Orders
    BY <1>3, CallFacts DEF refund_live_payment
  <2>2. CASE park_refund(q) /\ UNCHANGED order
    <3>1. OrderStep(o)
      BY <2>2, SameRow DEF SameOrder
    <3>2. \/ SameRefund(o)
          \/ /\ refund[o].status \in ActiveRefund
             /\ refund'[o].status \in ActiveRefund
             /\ refund'[o].key = refund[o].key
      BY <1>1, <2>1, <2>2 DEF park_refund, RefundRow, ActiveRefund, SameRefund
    <3>3. QED
      BY <3>1, <3>2, SameRow DEF RefundStep, ActiveRefund
  <2>3. CASE apply_refund(q, call[c].key) /\ refund_confirmed(call[c].answer)
    <3>1. "refunded" \in Past(q)
      BY <1>3, <2>3 DEF refund_confirmed, refund_live_payment, AnswersTrue
    <3>2. QED
      BY <2>1, <2>3, <3>1, ApplyRefundRow
  <2>4. CASE UNCHANGED <<order, refund>>
    BY <2>4, SameRow DEF SameOrder, SameRefund
  <2>5. QED
    BY <1>3, <2>2, <2>3, <2>4 DEF refund_live_payment
<1>4. ASSUME NEW q \in Orders, NEW action, resolve_refund_risk(q, action)
      PROVE  OrderStep(o) /\ RefundStep(o)
  <2>1. OrderStep(o)
    BY <1>4, SameRow DEF resolve_refund_risk, SameOrder
  <2>2. CASE o # q
    BY <1>1, <1>4, <2>1, <2>2, SameRow DEF resolve_refund_risk, SameRefund
  <2>3. CASE o = q
    BY <1>1, <1>4, <2>1, <2>3 DEF resolve_refund_risk, RefundStep, RefundRow
  <2>4. QED
    BY <2>2, <2>3
<1>5. QED
  BY <1>2, <1>3, <1>4

LEMMA LeaseRow ==
    ASSUME PaymentTypeOK, NEW o \in Orders, NEW q \in Orders, lease_expires(q)
    PROVE  OrderStep(o) /\ RefundStep(o)
<1>1. order \in [Orders -> OrderRow] /\ refund \in [Orders -> RefundRow]
  BY DEF PaymentTypeOK
<1>2. \/ order' = [order EXCEPT ![q].checkout_claim = FALSE] /\ refund' = refund
      \/ order' = [order EXCEPT ![q].reconciliation_claim = FALSE] /\ refund' = refund
      \/ order' = order /\ refund' = [refund EXCEPT ![q].claim = FALSE]
  BY DEF lease_expires
<1>3. /\ order'[o].status = order[o].status /\ order'[o].txn = order[o].txn
      /\ refund'[o].status = refund[o].status /\ refund'[o].key = refund[o].key
  BY <1>1, <1>2 DEF OrderRow, RefundRow
<1>4. QED
  BY <1>3 DEF OrderStep, RefundStep

(* Every step moves every order and every refund that way.                 *)
LEMMA RowSteps ==
    ASSUME PaymentTypeOK, AnswersTrue, [PaymentNext]_paymentVars, NEW o \in Orders
    PROVE  OrderStep(o) /\ RefundStep(o)
<1>1. CASE UNCHANGED <<order, refund>>
  BY <1>1, SameRow DEF SameOrder, SameRefund
<1>2. CASE \E q \in Orders, status \in IntentStates, id \in EventIds :
              live_payment_webhook(q, status, id)
  BY <1>2, EventRow DEF live_payment_webhook
<1>3. CASE \/ \E q \in Orders : create_order(q) \/ prepare_checkout_expired(q)
           \/ \E c \in Callers, q \in Orders : prepare_checkout(c, q)
           \/ \E c \in Callers : create_live_checkout(c)
  BY <1>3, CheckoutRow, CheckoutAnswerRow, SameRow
<1>4. CASE \E q \in Orders : lease_expires(q)
  BY <1>4, LeaseRow
<1>5. CASE \/ freeze \/ unfreeze
           \/ \E q \in Orders : provider_moves(q)
           \/ \E c \in Callers : crash(c) \/ provider_answers(c)
           \/ \E n \in HoldAmounts :
                 hold_credit(n) \/ \E charged \in 0..n : finalize_hold(n, charged)
  BY <1>1, <1>5 DEF freeze, unfreeze, provider_moves, crash, provider_answers,
                    hold_credit, finalize_hold
<1>6. CASE UNCHANGED paymentVars
  BY <1>1, <1>6 DEF paymentVars
<1>7. QED
  BY <1>2, <1>3, <1>4, <1>5, <1>6, ReconcileRow, RefundCommandRow DEF PaymentNext

-----------------------------------------------------------------------------
(* Orders follow the provider, and what is over stays over                 *)

FollowInv == AnswersTrue /\ FollowsTheProvider

LEMMA FollowInit == PaymentInit => FollowInv
<1>1. PaymentInit => FollowsTheProvider
  BY DEF PaymentInit, FollowsTheProvider, NoOrder
<1>2. QED
  BY <1>1, AnswersInit DEF FollowInv

LEMMA FollowStep ==
    PaymentTypeOK /\ FollowInv /\ [PaymentNext]_paymentVars => FollowInv'
<1> SUFFICES ASSUME PaymentTypeOK, FollowInv, [PaymentNext]_paymentVars
             PROVE  FollowInv'
  OBVIOUS
<1>1. AnswersTrue /\ AnswersTrue'
  BY AnswersStep DEF FollowInv
<1>2. ASSUME NEW o \in Orders
      PROVE  /\ order'[o].status \in {"paid", "refunding"} =>
                   intent'[o] \in {"paid", "refunded"}
             /\ order'[o].status \in {"failed", "closed", "refunded"} =>
                   intent'[o] = order'[o].status
  <2>1. OrderStep(o)
    BY <1>1, RowSteps
  <2>2. intent'[o] # intent[o] => <<intent[o], intent'[o]>> \in Moves
    BY PastGrows
  <2>3. /\ intent[o] \in {"paid", "refunded"} => intent'[o] \in {"paid", "refunded"}
        /\ intent[o] \in {"failed", "closed", "refunded"} => intent'[o] = intent[o]
    BY <2>2 DEF Moves
  <2>4. /\ "paid" \in Past(o) => intent[o] \in {"paid", "refunded"}
        /\ \A s \in {"failed", "closed", "refunded"} : s \in Past(o) => intent[o] = s
    BY DEF Past, PaymentTypeOK, IntentStates
  <2>5. /\ order[o].status \in {"paid", "refunding"} =>
              intent[o] \in {"paid", "refunded"}
        /\ order[o].status \in {"failed", "closed", "refunded"} =>
              intent[o] = order[o].status
    BY DEF FollowInv, FollowsTheProvider
  <2>6. QED
    BY <2>1, <2>3, <2>4, <2>5 DEF OrderStep, OPEN_CHECKOUT_STATUSES
<1>3. QED
  BY <1>1, <1>2 DEF FollowInv, FollowsTheProvider

(* Credit is given, taken back, or an order written off only after the     *)
(* provider's intent really got there.                                     *)
THEOREM GatewayFollowsTheProvider == PaymentSpec => []FollowsTheProvider
<1>1. PaymentInit => PaymentTypeOK /\ FollowInv
  BY PaymentTypeInit, FollowInit
<1>2. PaymentTypeOK /\ FollowInv /\ [PaymentNext]_paymentVars
        => (PaymentTypeOK /\ FollowInv)'
  BY PaymentTypeStep, FollowStep
<1>3. PaymentTypeOK /\ FollowInv => FollowsTheProvider
  BY DEF FollowInv
<1>4. QED
  BY <1>1, <1>2, <1>3, PTL DEF PaymentSpec

LEMMA OverStep ==
    PaymentTypeOK /\ AnswersTrue /\ [PaymentNext]_paymentVars =>
      \A o \in Orders :
          /\ order[o].status \in {"failed", "closed", "refunded"} =>
                order'[o].status = order[o].status
          /\ refund[o].status \in {"refunded", "resolved"} =>
                refund'[o].status = refund[o].status
          /\ refund[o].status = "risk" =>
                refund'[o].status \in {"risk", "resolved"}
<1> SUFFICES ASSUME PaymentTypeOK, AnswersTrue, [PaymentNext]_paymentVars,
                    NEW o \in Orders
             PROVE  /\ order[o].status \in {"failed", "closed", "refunded"} =>
                          order'[o].status = order[o].status
                    /\ refund[o].status \in {"refunded", "resolved"} =>
                          refund'[o].status = refund[o].status
                    /\ refund[o].status = "risk" =>
                          refund'[o].status \in {"risk", "resolved"}
  OBVIOUS
<1>1. OrderStep(o) /\ RefundStep(o)
  BY RowSteps
<1>2. QED
  BY <1>1 DEF OrderStep, RefundStep, OPEN_CHECKOUT_STATUSES, ActiveRefund

(* No late answer, event or claim reopens an order or a refund that is     *)
(* over.                                                                   *)
THEOREM OverIsOverHolds == PaymentSpec => OverIsOver
<1>1. PaymentInit => PaymentTypeOK /\ AnswersTrue
  BY PaymentTypeInit, AnswersInit
<1>2. PaymentTypeOK /\ AnswersTrue /\ [PaymentNext]_paymentVars
        => (PaymentTypeOK /\ AnswersTrue)'
  BY PaymentTypeStep, AnswersStep
<1>3. PaymentTypeOK /\ AnswersTrue /\ [PaymentNext]_paymentVars =>
        [\A o \in Orders :
          /\ order[o].status \in {"failed", "closed", "refunded"} =>
                order'[o].status = order[o].status
          /\ refund[o].status \in {"refunded", "resolved"} =>
                refund'[o].status = refund[o].status
          /\ refund[o].status = "risk" =>
                refund'[o].status \in {"risk", "resolved"}]_paymentVars
  BY OverStep
<1>4. QED
  BY <1>1, <1>2, <1>3, PTL DEF PaymentSpec, OverIsOver

-----------------------------------------------------------------------------
(* One checkout call and one refund key per order                          *)

(* An order is not called for until it exists; when it has been called     *)
(* for, it is never again in the state that allows a call.                 *)
CalledInv ==
    \A o \in Orders :
        \/ asked[o] = 0
        \/ /\ asked[o] = 1
           /\ order[o].status # "absent"
           /\ order[o].status = "pending" => order[o].txn

LEMMA CalledInit == PaymentInit => CalledInv
  BY DEF PaymentInit, CalledInv

LEMMA CalledStep ==
    PaymentTypeOK /\ AnswersTrue /\ CalledInv /\ [PaymentNext]_paymentVars => CalledInv'
<1> SUFFICES ASSUME PaymentTypeOK, AnswersTrue, CalledInv, [PaymentNext]_paymentVars,
                    NEW o \in Orders
             PROVE  \/ asked'[o] = 0
                    \/ /\ asked'[o] = 1
                       /\ order'[o].status # "absent"
                       /\ order'[o].status = "pending" => order'[o].txn
  BY DEF CalledInv
<1>1. \/ asked'[o] = asked[o]
      \/ \E c \in Callers : prepare_checkout(c, o)
  <2>1. ASSUME NEW c \in Callers, NEW q \in Orders, prepare_checkout(c, q), q # o
        PROVE  asked'[o] = asked[o]
    BY <2>1 DEF prepare_checkout, PaymentTypeOK
  <2>2. QED
    BY <2>1, StepFrames
<1>2. CASE asked'[o] = asked[o]
  <2>1. OrderStep(o)
    BY RowSteps
  <2>2. QED
    BY <1>2, <2>1 DEF CalledInv, OrderStep, OPEN_CHECKOUT_STATUSES
<1>3. CASE \E c \in Callers : prepare_checkout(c, o)
  <2>1. order[o].status = "pending" /\ ~order[o].txn
    BY <1>3 DEF prepare_checkout, checkout_claimable
  <2>2. order'[o].status = "checkout_requesting" /\ asked'[o] = asked[o] + 1
    BY <1>3 DEF prepare_checkout, PaymentTypeOK, OrderRow
  <2>3. asked[o] = 0
    BY <2>1 DEF CalledInv
  <2>4. QED
    BY <2>2, <2>3
<1>4. QED
  BY <1>1, <1>2, <1>3

(* The provider is asked to create an order's payment intent at most once. *)
THEOREM CheckoutCalledOnceHolds == PaymentSpec => []CheckoutCalledOnce
<1> DEFINE Inv == PaymentTypeOK /\ AnswersTrue /\ CalledInv
<1>1. PaymentInit => Inv
  BY PaymentTypeInit, AnswersInit, CalledInit
<1>2. Inv /\ [PaymentNext]_paymentVars => Inv'
  BY PaymentTypeStep, AnswersStep, CalledStep
<1>3. Inv => CheckoutCalledOnce
  BY DEF CalledInv, CheckoutCalledOnce
<1> HIDE DEF Inv
<1>4. QED
  BY <1>1, <1>2, <1>3, PTL DEF PaymentSpec

(* A refund is called for with the key of its row, which must be there.    *)
SentInv ==
    \A o \in Orders :
        /\ sent[o] \subseteq {refund[o].key}
        /\ refund[o].status = "absent" => sent[o] = {}

LEMMA SentInit == PaymentInit => SentInv
  BY DEF PaymentInit, SentInv

LEMMA SentStep ==
    PaymentTypeOK /\ AnswersTrue /\ SentInv /\ [PaymentNext]_paymentVars => SentInv'
<1> SUFFICES ASSUME PaymentTypeOK, AnswersTrue, SentInv, [PaymentNext]_paymentVars,
                    NEW o \in Orders
             PROVE  /\ sent'[o] \subseteq {refund'[o].key}
                    /\ refund'[o].status = "absent" => sent'[o] = {}
  BY DEF SentInv
<1>1. \/ sent'[o] = sent[o]
      \/ \E c \in Callers, key \in RefundKeys : prepare_refund(c, o, key)
  <2>1. ASSUME NEW c \in Callers, NEW q \in Orders, NEW key \in RefundKeys,
               prepare_refund(c, q, key), q # o
        PROVE  sent'[o] = sent[o]
    BY <2>1 DEF prepare_refund, PaymentTypeOK
  <2>2. QED
    BY <2>1, StepFrames
<1>2. RefundStep(o)
  BY RowSteps
<1>3. CASE sent'[o] = sent[o]
  BY <1>2, <1>3 DEF SentInv, RefundStep, ActiveRefund
<1>4. CASE \E c \in Callers, key \in RefundKeys : prepare_refund(c, o, key)
  <2>1. PICK c \in Callers, key \in RefundKeys : prepare_refund(c, o, key)
    BY <1>4
  <2>2. sent'[o] = sent[o] \cup {key}
    BY <2>1 DEF prepare_refund, PaymentTypeOK
  <2>3. refund'[o].key = key /\ refund'[o].status # "absent"
    BY <2>1 DEF prepare_refund, same_command, PaymentTypeOK, RefundRow
  <2>4. sent[o] \subseteq {key}
    BY <1>2, <2>3 DEF SentInv, RefundStep
  <2>5. QED
    BY <2>2, <2>3, <2>4
<1>5. QED
  BY <1>1, <1>3, <1>4

(* All refund calls of an order carry one idempotency key.                 *)
THEOREM OneRefundCommandHolds == PaymentSpec => []OneRefundCommand
<1> DEFINE Inv == PaymentTypeOK /\ AnswersTrue /\ SentInv
<1>1. PaymentInit => Inv
  BY PaymentTypeInit, AnswersInit, SentInit
<1>2. Inv /\ [PaymentNext]_paymentVars => Inv'
  BY PaymentTypeStep, AnswersStep, SentStep
<1>3. Inv => OneRefundCommand
  BY DEF SentInv, OneRefundCommand
<1> HIDE DEF Inv
<1>4. QED
  BY <1>1, <1>2, <1>3, PTL DEF PaymentSpec

-----------------------------------------------------------------------------
(* The steps that move money, or make or close a risk                      *)

(* A step of any other kind leaves the money alone, no order becomes or    *)
(* stops being paid for, and no refund's risk arises or goes.              *)
Quiet ==
    /\ UNCHANGED <<wallet, ledger, outstanding>>
    /\ PaidOrders' = PaidOrders
    /\ \A o \in Orders : refund'[o].status = "risk" <=> refund[o].status = "risk"
    /\ \/ UNCHANGED user
       \/ user' = "frozen"
       \/ no_unresolved_risk

LEMMA QuietRows ==
    ASSUME PaymentTypeOK, UNCHANGED <<wallet, ledger, outstanding>>,
           \/ UNCHANGED user
           \/ user' = "frozen"
           \/ no_unresolved_risk,
           \A o \in Orders :
              /\ order'[o].status \in {"paid", "refunding"} <=>
                    order[o].status \in {"paid", "refunding"}
              /\ refund'[o].status = "risk" <=> refund[o].status = "risk"
    PROVE  Quiet
  BY DEF Quiet, PaidOrders

LEMMA CheckoutQuiet ==
    ASSUME PaymentTypeOK,
           \/ \E o \in Orders : create_order(o) \/ prepare_checkout_expired(o)
           \/ \E c \in Callers, o \in Orders : prepare_checkout(c, o)
           \/ \E c \in Callers : create_live_checkout(c)
    PROVE  Quiet
<1>1. UNCHANGED <<user, wallet, ledger, refund, outstanding>>
  BY DEF create_order, prepare_checkout_expired, prepare_checkout,
         create_live_checkout
<1>2. ASSUME NEW o \in Orders
      PROVE  \/ order'[o] = order[o]
             \/ /\ order[o].status \in OPEN_CHECKOUT_STATUSES \cup {"absent"}
                /\ order'[o].status \in OPEN_CHECKOUT_STATUSES
  <2>1. order \in [Orders -> OrderRow]
    BY DEF PaymentTypeOK
  <2>2. ASSUME NEW q \in Orders,
               \/ create_order(q) \/ prepare_checkout_expired(q)
               \/ \E c \in Callers : prepare_checkout(c, q)
        PROVE  \/ order'[o] = order[o]
               \/ /\ order[o].status \in OPEN_CHECKOUT_STATUSES \cup {"absent"}
                  /\ order'[o].status \in OPEN_CHECKOUT_STATUSES
    BY <2>1, <2>2 DEF create_order, prepare_checkout_expired, prepare_checkout,
         checkout_claimable, OPEN_CHECKOUT_STATUSES, OrderRow
  <2>3. ASSUME NEW c \in Callers, create_live_checkout(c)
        PROVE  \/ order'[o] = order[o]
               \/ /\ order[o].status \in OPEN_CHECKOUT_STATUSES \cup {"absent"}
                  /\ order'[o].status \in OPEN_CHECKOUT_STATUSES
    <3> DEFINE q == call[c].order
    <3>1. q \in Orders
      BY <2>3, CallFacts DEF create_live_checkout
    <3>2. CASE o # q
      BY <2>1, <2>3, <3>1, <3>2 DEF create_live_checkout
    <3>3. CASE o = q
      <4>1. \/ order' = order
            \/ /\ order[o].status = "checkout_requesting"
               /\ order'[o].status \in {"pending", "pending_reconciliation"}
        <5> DEFINE failed == [order[q] EXCEPT !.status = "pending_reconciliation",
                                              !.checkout_claim = FALSE]
                   got == IF call[c].answer = "pending"
                          THEN "pending" ELSE "pending_reconciliation"
                   answered == [order[q] EXCEPT !.status = got, !.txn = TRUE,
                                                !.url = TRUE, !.checkout_claim = FALSE]
        <5>1. \/ order' = order
              \/ /\ order[q].status = "checkout_requesting"
                 /\ \/ order' = [order EXCEPT ![q] = failed]
                    \/ order' = [order EXCEPT ![q] = answered]
          BY <2>1, <2>3, <3>1 DEF create_live_checkout
        <5>2. failed.status = "pending_reconciliation" /\ answered.status = got
          BY <2>1, <3>1 DEF OrderRow
        <5> HIDE DEF q, failed, answered
        <5>3. QED
          BY <2>1, <3>1, <3>3, <5>1, <5>2
      <4>2. QED
        BY <4>1 DEF OPEN_CHECKOUT_STATUSES
    <3>4. QED
      BY <3>2, <3>3
  <2>4. QED
    BY <2>2, <2>3
<1>3. QED
  BY <1>1, <1>2, QuietRows DEF OPEN_CHECKOUT_STATUSES

(* An event credits a payment, takes a refund back, or moves no money.     *)
LEMMA EventMoney ==
    ASSUME PaymentTypeOK, NEW q \in Orders, NEW status, NEW id,
           apply_webhook(q, status, id)
    PROVE  \/ apply_paid(q)
           \/ \E key \in RefundKeys \cup {WebhookKey} : apply_refund(q, key)
           \/ Quiet
<1>1. order \in [Orders -> OrderRow] /\ refund \in [Orders -> RefundRow]
  BY DEF PaymentTypeOK
<1>2. CASE status \in {"pending", "failed", "closed"} /\ apply_open(q, status)
  <2>1. UNCHANGED <<user, wallet, ledger, refund, outstanding>>
    BY <1>2 DEF apply_open
  <2>2. ASSUME NEW o \in Orders
        PROVE  order'[o].status \in {"paid", "refunding"} <=>
                  order[o].status \in {"paid", "refunding"}
    <3>1. CASE o # q
      BY <1>1, <1>2, <3>1 DEF apply_open
    <3>2. CASE o = q
      <4>1. /\ order[o].status \in OPEN_CHECKOUT_STATUSES
            /\ order'[o].status =
                 IF status # "pending" THEN status
                 ELSE IF order[o].status = "checkout_requesting"
                      THEN "pending_reconciliation" ELSE order[o].status
        BY <1>1, <1>2, <3>2 DEF apply_open, OrderRow
      <4>2. QED
        BY <1>2, <4>1 DEF OPEN_CHECKOUT_STATUSES
    <3>3. QED
      BY <3>1, <3>2
  <2>3. Quiet
    BY <2>1, <2>2, QuietRows
  <2>4. QED
    BY <2>3
<1>3. CASE apply_refunded(q)
  <2>1. CASE UNCHANGED <<user, wallet, ledger, order, refund, outstanding>>
    <3>1. Quiet
      BY <2>1, QuietRows
    <3>2. QED
      BY <3>1
  <2>2. CASE order[q].status # "refunded"
    <3>1. refund[q].key \in RefundKeys \cup {WebhookKey}
      BY <1>1 DEF RefundRow
    <3>2. QED
      BY <1>3, <2>2, <3>1 DEF apply_refunded
  <2>3. QED
    BY <1>3, <2>1, <2>2 DEF apply_refunded
<1>4. QED
  BY <1>2, <1>3 DEF apply_webhook

LEMMA ReconcileMoney ==
    ASSUME PaymentTypeOK, NEW c \in Callers,
           \/ \E o \in Orders : reconcile_claims(c, o)
           \/ reconcile_keeps(c) \/ reconcile_applies(c) \/ reconcile_finishes(c)
    PROVE  \/ \E o \in Orders : apply_paid(o)
           \/ \E o \in Orders, key \in RefundKeys \cup {WebhookKey} : apply_refund(o, key)
           \/ Quiet
<1>1. order \in [Orders -> OrderRow]
  BY DEF PaymentTypeOK
<1>2. CASE reconcile_applies(c)
  <2>1. call[c].order \in Orders
    BY <1>2, CallFacts DEF reconcile_applies
  <2>2. CASE UNCHANGED <<user, wallet, ledger, order, refund, outstanding>>
    BY <2>2, QuietRows
  <2>3. CASE apply_webhook(call[c].order, call[c].answer, ReconcileId)
    BY <2>1, <2>3, EventMoney
  <2>4. QED
    BY <1>2, <2>2, <2>3 DEF reconcile_applies
<1>3. CASE ~ reconcile_applies(c)
  <2>1. UNCHANGED <<user, wallet, ledger, refund, outstanding>>
    BY <1>3 DEF reconcile_claims, reconcile_keeps, reconcile_finishes
  <2>2. ASSUME NEW o \in Orders
        PROVE  order'[o].status \in {"paid", "refunding"} <=>
                  order[o].status \in {"paid", "refunding"}
    <3>1. ASSUME NEW q \in Orders, reconcile_claims(c, q)
          PROVE  \/ order'[o].status = order[o].status
                 \/ /\ order[o].status \in OPEN_CHECKOUT_STATUSES
                    /\ order'[o].status = "pending_reconciliation"
      <4>1. CASE o # q
        BY <1>1, <3>1, <4>1 DEF reconcile_claims
      <4>2. CASE o = q
        <5>1. order'[o].status = "pending_reconciliation"
          BY <1>1, <3>1, <4>2 DEF reconcile_claims, OrderRow
        <5>2. order[o].status \in OPEN_CHECKOUT_STATUSES
          BY <3>1, <4>2 DEF reconcile_claims, OPEN_CHECKOUT_STATUSES
        <5>3. QED
          BY <5>1, <5>2
      <4>3. QED
        BY <4>1, <4>2
    <3>2. ASSUME reconcile_keeps(c)
          PROVE  \/ order'[o].status = order[o].status
                 \/ /\ order[o].status \in OPEN_CHECKOUT_STATUSES
                    /\ order'[o].status = "pending_reconciliation"
      <4>1. call[c].order \in Orders
        BY <3>2, CallFacts DEF reconcile_keeps
      <4>2. QED
        BY <1>1, <3>2, <4>1 DEF reconcile_keeps, OrderRow, OPEN_CHECKOUT_STATUSES
    <3>3. ASSUME reconcile_finishes(c)
          PROVE  order'[o].status = order[o].status
      <4>1. call[c].order \in Orders
        BY <3>3, CallFacts DEF reconcile_finishes
      <4>2. QED
        BY <1>1, <3>3, <4>1 DEF reconcile_finishes, OrderRow
    <3>4. QED
      BY <1>3, <3>1, <3>2, <3>3 DEF OPEN_CHECKOUT_STATUSES
  <2>3. QED
    BY <2>1, <2>2, QuietRows
<1>4. QED
  BY <1>2, <1>3

LEMMA RefundCommandMoney ==
    ASSUME PaymentTypeOK, NEW c \in Callers,
           \/ \E o \in Orders, key \in RefundKeys : prepare_refund(c, o, key)
           \/ refund_live_payment(c)
    PROVE  \/ \E o \in Orders, key \in RefundKeys \cup {WebhookKey} : apply_refund(o, key)
           \/ Quiet
<1>1. order \in [Orders -> OrderRow] /\ refund \in [Orders -> RefundRow]
  BY DEF PaymentTypeOK
<1>2. ASSUME NEW q \in Orders, NEW key \in RefundKeys, prepare_refund(c, q, key)
      PROVE  Quiet
  <2>1. UNCHANGED <<user, wallet, ledger, outstanding>>
    BY <1>2 DEF prepare_refund
  <2>2. ASSUME NEW o \in Orders
        PROVE  /\ order'[o].status \in {"paid", "refunding"} <=>
                    order[o].status \in {"paid", "refunding"}
               /\ refund'[o].status = "risk" <=> refund[o].status = "risk"
    <3>1. CASE o # q
      BY <1>1, <1>2, <3>1 DEF prepare_refund
    <3>2. CASE o = q
      <4>1. \/ order'[o] = order[o]
            \/ order[o].status = "paid" /\ order'[o].status = "refunding"
        BY <1>1, <1>2, <3>2 DEF prepare_refund, OrderRow
      <4>2. refund[o].status # "risk" /\ refund'[o].status # "risk"
        BY <1>1, <1>2, <3>2 DEF prepare_refund, RefundRow
      <4>3. QED
        BY <4>1, <4>2
    <3>3. QED
      BY <3>1, <3>2
  <2>3. QED
    BY <2>1, <2>2, QuietRows
<1>3. CASE refund_live_payment(c)
  <2> DEFINE q == call[c].order
  <2>1. q \in Orders /\ call[c].key \in RefundKeys \cup {WebhookKey}
    BY <1>3, CallFacts DEF refund_live_payment
  <2>2. CASE park_refund(q) /\ UNCHANGED <<user, wallet, ledger, order, outstanding>>
    <3>1. ASSUME NEW o \in Orders
          PROVE  refund'[o].status = "risk" <=> refund[o].status = "risk"
      BY <1>1, <2>1, <2>2 DEF park_refund, RefundRow
    <3>2. QED
      BY <2>2, <3>1, QuietRows
  <2>3. CASE UNCHANGED <<user, wallet, ledger, order, refund, outstanding>>
    BY <2>3, QuietRows
  <2>4. CASE apply_refund(q, call[c].key)
    BY <2>1, <2>4
  <2>5. QED
    BY <1>3, <2>2, <2>3, <2>4 DEF refund_live_payment
<1>4. QED
  BY <1>2, <1>3

(* Every step is one of those that move money, or a quiet one.             *)
LEMMA MoneySteps ==
    ASSUME PaymentTypeOK, [PaymentNext]_paymentVars
    PROVE  \/ \E o \in Orders : apply_paid(o)
           \/ \E o \in Orders, key \in RefundKeys \cup {WebhookKey} : apply_refund(o, key)
           \/ \E o \in Orders, action \in {"recover_available", "write_off"} :
                 resolve_refund_risk(o, action)
           \/ \E n \in HoldAmounts :
                 hold_credit(n) \/ \E charged \in 0..n : finalize_hold(n, charged)
           \/ Quiet
<1>1. CASE \E o \in Orders : lease_expires(o)
  <2>1. PICK q \in Orders : lease_expires(q)
    BY <1>1
  <2>2. \/ order' = [order EXCEPT ![q].checkout_claim = FALSE] /\ refund' = refund
        \/ order' = [order EXCEPT ![q].reconciliation_claim = FALSE] /\ refund' = refund
        \/ order' = order /\ refund' = [refund EXCEPT ![q].claim = FALSE]
    BY <2>1 DEF lease_expires
  <2>3. ASSUME NEW o \in Orders
        PROVE  /\ order'[o].status = order[o].status
               /\ refund'[o].status = refund[o].status
    <3>1. order \in [Orders -> OrderRow] /\ refund \in [Orders -> RefundRow]
      BY DEF PaymentTypeOK
    <3>2. order'[o].status = order[o].status
      BY <2>2, <3>1 DEF OrderRow
    <3>3. refund'[o].status = refund[o].status
      BY <2>2, <3>1 DEF RefundRow
    <3>4. QED
      BY <3>2, <3>3
  <2>4. UNCHANGED <<user, wallet, ledger, outstanding>>
    BY <2>1 DEF lease_expires
  <2>5. Quiet
    BY <2>3, <2>4, QuietRows
  <2>6. QED
    BY <2>5
<1>2. CASE \/ freeze \/ unfreeze
           \/ \E q \in Orders : provider_moves(q)
           \/ \E c \in Callers : crash(c) \/ provider_answers(c)
           \/ UNCHANGED paymentVars
  <2>1. UNCHANGED <<wallet, ledger, order, refund, outstanding>>
    BY <1>2 DEF freeze, unfreeze, provider_moves, crash, provider_answers, paymentVars
  <2>2. UNCHANGED user \/ user' = "frozen" \/ no_unresolved_risk
    BY <1>2 DEF freeze, unfreeze, provider_moves, crash, provider_answers, paymentVars
  <2>3. Quiet
    BY <2>1, <2>2, QuietRows
  <2>4. QED
    BY <2>3
<1>3. CASE \E q \in Orders, status \in IntentStates, id \in EventIds :
              live_payment_webhook(q, status, id)
  BY <1>3, EventMoney DEF live_payment_webhook
<1>4. QED
  BY <1>1, <1>2, <1>3, CheckoutQuiet, ReconcileMoney, RefundCommandMoney
  DEF PaymentNext

-----------------------------------------------------------------------------
(* Risk and the frozen account                                             *)

LEMMA FrozenInit == PaymentInit => FrozenWhileAtRisk
  BY DEF PaymentInit, FrozenWhileAtRisk, NoRefund

LEMMA FrozenStep ==
    PaymentTypeOK /\ FrozenWhileAtRisk /\ [PaymentNext]_paymentVars => FrozenWhileAtRisk'
<1> SUFFICES ASSUME PaymentTypeOK, FrozenWhileAtRisk, [PaymentNext]_paymentVars,
                    NEW o \in Orders
             PROVE  /\ refund'[o].status = "risk" <=> outstanding'[o] > 0
                    /\ refund'[o].status = "risk" => user' = "frozen"
  BY DEF FrozenWhileAtRisk
<1>1. /\ refund \in [Orders -> RefundRow] /\ outstanding \in [Orders -> Nat]
      /\ refund[o].status = "risk" <=> outstanding[o] > 0
      /\ refund[o].status = "risk" => user = "frozen"
  BY DEF PaymentTypeOK, FrozenWhileAtRisk
<1>2. ASSUME NEW q \in Orders, NEW key, apply_refund(q, key)
      PROVE  /\ refund'[o].status = "risk" <=> outstanding'[o] > 0
             /\ refund'[o].status = "risk" => user' = "frozen"
  <2>1. user' \in {user, "frozen"}
    BY <1>2 DEF apply_refund
  <2>2. CASE o # q
    BY <1>1, <1>2, <2>1, <2>2 DEF apply_refund
  <2>3. CASE o = q
    <3>1. CreditOf[o] - recovered(o) \in Nat
      BY <1>2, <2>3, PaymentAssumption, RefundBooked
    <3>2. refund[o].status # "risk"
      BY <1>2, <2>3 DEF apply_refund, refundable, ActiveRefund
    <3>3. outstanding'[o] = CreditOf[o] - recovered(o)
      BY <1>1, <1>2, <2>3, <3>1, <3>2 DEF apply_refund
    <3>4. /\ refund'[o].status = "risk" <=> CreditOf[o] - recovered(o) # 0
          /\ CreditOf[o] - recovered(o) # 0 => user' = "frozen"
      BY <1>1, <1>2, <2>3 DEF apply_refund, RefundRow
    <3>5. QED
      BY <3>1, <3>3, <3>4
  <2>4. QED
    BY <2>2, <2>3
<1>3. ASSUME NEW q \in Orders, NEW action, resolve_refund_risk(q, action)
      PROVE  /\ refund'[o].status = "risk" <=> outstanding'[o] > 0
             /\ refund'[o].status = "risk" => user' = "frozen"
  <2>1. UNCHANGED user
    BY <1>3 DEF resolve_refund_risk
  <2>2. CASE o # q
    BY <1>1, <1>3, <2>1, <2>2 DEF resolve_refund_risk
  <2>3. CASE o = q
    BY <1>1, <1>3, <2>3 DEF resolve_refund_risk, RefundRow
  <2>4. QED
    BY <2>2, <2>3
<1>4. CASE UNCHANGED <<user, refund, outstanding>>
  BY <1>1, <1>4
<1>5. CASE Quiet
  BY <1>1, <1>5 DEF Quiet, no_unresolved_risk
<1>6. QED
  BY <1>2, <1>3, <1>4, <1>5, MoneySteps DEF apply_paid, hold_credit, finalize_hold

(* An account with a refund that could not be recovered stays frozen, and  *)
(* such a refund is one with money outstanding.                            *)
THEOREM FrozenWhileAtRiskHolds == PaymentSpec => []FrozenWhileAtRisk
<1>1. PaymentInit => PaymentTypeOK /\ FrozenWhileAtRisk
  BY PaymentTypeInit, FrozenInit
<1>2. PaymentTypeOK /\ FrozenWhileAtRisk /\ [PaymentNext]_paymentVars
        => (PaymentTypeOK /\ FrozenWhileAtRisk)'
  BY PaymentTypeStep, FrozenStep
<1>3. QED
  BY <1>1, <1>2, PTL DEF PaymentSpec

-----------------------------------------------------------------------------
(* The cap on open orders                                                  *)

LEMMA CapInit == PaymentInit => OpenOrdersWithinCap
<1> SUFFICES ASSUME PaymentInit PROVE OpenOrdersWithinCap
  OBVIOUS
<1>1. OpenOrders = {}
  BY DEF PaymentInit, OpenOrders, NoOrder, OPEN_CHECKOUT_STATUSES
<1>2. QED
  BY <1>1, FS_EmptySet, PaymentAssumption DEF OpenOrdersWithinCap

LEMMA CapStep ==
    PaymentTypeOK /\ AnswersTrue /\ OpenOrdersWithinCap /\ [PaymentNext]_paymentVars
      => OpenOrdersWithinCap'
<1> SUFFICES ASSUME PaymentTypeOK, AnswersTrue, OpenOrdersWithinCap,
                    [PaymentNext]_paymentVars
             PROVE  OpenOrdersWithinCap'
  OBVIOUS
<1>1. IsFiniteSet(OpenOrders) /\ Cardinality(OpenOrders) \in Nat
  BY PaymentAssumption, FS_Subset, FS_CardinalityType DEF OpenOrders
<1>2. MaxOpenOrders \in Nat
  BY PaymentAssumption
<1>3. ASSUME NEW o \in Orders, create_order(o) PROVE OpenOrdersWithinCap'
  <2>1. OpenOrders' = OpenOrders \cup {o}
    BY <1>3 DEF create_order, OpenOrders, PaymentTypeOK, OrderRow,
                OPEN_CHECKOUT_STATUSES
  <2>2. o \notin OpenOrders
    BY <1>3 DEF create_order, OpenOrders, OPEN_CHECKOUT_STATUSES
  <2>3. Cardinality(OpenOrders \cup {o}) = Cardinality(OpenOrders) + 1
    BY <1>1, <2>2, FS_AddElement
  <2>4. Cardinality(OpenOrders) < MaxOpenOrders
    BY <1>3 DEF create_order, counted_open_orders
  <2>5. QED
    BY <1>1, <1>2, <2>1, <2>3, <2>4 DEF OpenOrdersWithinCap
<1>4. CASE \A o \in Orders : ~ create_order(o)
  <2>1. \A o \in Orders : OrderStep(o)
    BY RowSteps
  <2>2. OpenOrders' \subseteq OpenOrders
    BY <1>4, <2>1 DEF OpenOrders, OrderStep, OPEN_CHECKOUT_STATUSES
  <2>3. Cardinality(OpenOrders') <= Cardinality(OpenOrders)
    BY <1>1, <2>2, FS_Subset
  <2>4. Cardinality(OpenOrders') \in Nat
    BY <1>1, <2>2, FS_Subset, FS_CardinalityType
  <2>5. QED
    BY <1>1, <1>2, <2>3, <2>4 DEF OpenOrdersWithinCap
<1>5. QED
  BY <1>3, <1>4

(* The customer's open orders stay within the configured cap.              *)
THEOREM OpenOrdersWithinCapHolds == PaymentSpec => []OpenOrdersWithinCap
<1> DEFINE Inv == PaymentTypeOK /\ AnswersTrue /\ OpenOrdersWithinCap
<1>1. PaymentInit => Inv
  BY PaymentTypeInit, AnswersInit, CapInit
<1>2. Inv /\ [PaymentNext]_paymentVars => Inv'
  BY PaymentTypeStep, AnswersStep, CapStep
<1>3. Inv => OpenOrdersWithinCap
  OBVIOUS
<1> HIDE DEF Inv
<1>4. QED
  BY <1>1, <1>2, <1>3, PTL DEF PaymentSpec

-----------------------------------------------------------------------------
(* The books                                                               *)

LEMMA BooksInit == PaymentInit => BooksMatchPayments
<1> SUFFICES ASSUME PaymentInit PROVE BooksMatchPayments
  OBVIOUS
<1>1. PaidOrders = {}
  BY DEF PaymentInit, PaidOrders, NoOrder
<1>2. SumFunctionOnSet(CreditOf, PaidOrders) = 0
  BY <1>1, SumOfNone
<1>3. SumFunctionOnSet(outstanding, Orders) = 0
  <2>1. IsFiniteSet(Orders) /\ \A o \in Orders : outstanding[o] = 0
    BY PaymentAssumption DEF PaymentInit
  <2>2. QED
    BY <2>1, SumOfZeros
<1>4. /\ ledger[PLATFORM_CLEARING] = 0 /\ ledger[PLATFORM_RISK] = 0
      /\ ledger[CUSTOMER_AVAILABLE] = 0 /\ ledger[CUSTOMER_RESERVED] = 0
      /\ TotalOf(ledger) = 0
  BY DEF PaymentInit, EmptyLedger, TotalOf, Amount, Accounts, CUSTOMER_AVAILABLE,
         CUSTOMER_RESERVED, PLATFORM_CLEARING, PLATFORM_REVENUE, PLATFORM_RISK,
         PLATFORM_LOSS, PLATFORM_PROVIDER_EXPENSE, PLATFORM_PROVIDER_PAYABLE
<1>5. wallet.balance = 0 /\ wallet.reserved = 0
  BY DEF PaymentInit
<1>6. /\ ledger[PLATFORM_CLEARING] = -SumFunctionOnSet(CreditOf, PaidOrders)
      /\ ledger[PLATFORM_RISK] = -SumFunctionOnSet(outstanding, Orders)
  <2>1. \A n \in Int : -n = 0 - n
    OBVIOUS
  <2>2. \A n \in Int, m \in Int : n = 0 /\ m = 0 => m = 0 - n
    OBVIOUS
  <2>3. \A n \in Int, m \in Int : n = 0 /\ m = 0 => m = -n
    BY <2>1, <2>2
  <2> DEFINE credit == SumFunctionOnSet(CreditOf, PaidOrders)
             risk == SumFunctionOnSet(outstanding, Orders)
             clearing == ledger[PLATFORM_CLEARING]
             risked == ledger[PLATFORM_RISK]
  <2>4. /\ credit \in Int /\ credit = 0 /\ clearing \in Int /\ clearing = 0
        /\ risk \in Int /\ risk = 0 /\ risked \in Int /\ risked = 0
    BY <1>2, <1>3, <1>4
  <2> HIDE DEF credit, risk, clearing, risked
  <2>5. clearing = -credit /\ risked = -risk
    BY <2>3, <2>4, Zenon
  <2>6. QED
    BY <2>5 DEF credit, risk, clearing, risked
<1>7. QED
  BY <1>4, <1>5, <1>6 DEF BooksMatchPayments

(* Books that agree still do when clearing and risk move as the sums do.   *)
LEMMA BooksKept ==
    ASSUME PaymentTypeOK, BooksMatchPayments,
           NEW available \in Int, NEW reserved \in Int, NEW cleared \in Int,
           NEW risked \in Int, Booked(available, reserved, cleared, risked),
           SumFunctionOnSet(CreditOf, PaidOrders') =
              SumFunctionOnSet(CreditOf, PaidOrders) - cleared,
           SumFunctionOnSet(outstanding', Orders) =
              SumFunctionOnSet(outstanding, Orders) - risked,
           SumFunctionOnSet(CreditOf, PaidOrders) \in Int,
           SumFunctionOnSet(outstanding, Orders) \in Int
    PROVE  BooksMatchPayments'
<1>1. /\ ledger \in [Accounts -> Int] /\ PLATFORM_CLEARING \in Accounts
      /\ PLATFORM_RISK \in Accounts
  BY DEF PaymentTypeOK, Accounts
<1>2. /\ wallet'.balance = wallet.balance + available
      /\ wallet'.reserved = wallet.reserved + reserved
  BY DEF Booked
<1>3. ledger'[PLATFORM_CLEARING] = -SumFunctionOnSet(CreditOf, PaidOrders')
  BY <1>1 DEF Booked, BooksMatchPayments
<1>4. ledger'[PLATFORM_RISK] = -SumFunctionOnSet(outstanding', Orders)
  BY <1>1 DEF Booked, BooksMatchPayments
<1>5. QED
  BY <1>2, <1>3, <1>4 DEF Booked, BooksMatchPayments

LEMMA PaidFacts ==
    ASSUME PaymentTypeOK
    PROVE  /\ IsFiniteSet(Orders) /\ IsFiniteSet(PaidOrders)
           /\ PaidOrders \subseteq Orders
           /\ \A o \in Orders : CreditOf[o] \in Nat /\ outstanding[o] \in Nat
           /\ SumFunctionOnSet(CreditOf, PaidOrders) \in Int
           /\ SumFunctionOnSet(outstanding, Orders) \in Int
<1>1. /\ IsFiniteSet(Orders) /\ PaidOrders \subseteq Orders
      /\ \A o \in Orders : CreditOf[o] \in Nat /\ outstanding[o] \in Nat
  BY PaymentAssumption DEF PaymentTypeOK, PaidOrders
<1>2. IsFiniteSet(PaidOrders)
  BY <1>1, FS_Subset
<1>3. \A o \in Orders : CreditOf[o] \in Int /\ outstanding[o] \in Int
  BY <1>1
<1>4. SumFunctionOnSet(CreditOf, PaidOrders) \in Int
  BY <1>1, <1>2, <1>3, SumIsInt
<1>5. SumFunctionOnSet(outstanding, Orders) \in Int
  BY <1>1, <1>3, SumIsInt
<1>6. QED
  BY <1>1, <1>2, <1>4, <1>5

(* A payment that is credited adds its order to the paid ones.             *)
LEMMA CreditBooks ==
    ASSUME PaymentTypeOK, BooksMatchPayments, NEW o \in Orders, apply_paid(o)
    PROVE  BooksMatchPayments'
<1> DEFINE n == CreditOf[o]
<1>1. n \in Nat /\ Booked(n, 0, -n, 0) /\ outstanding' = outstanding
  BY CreditBooked, PaidFacts DEF apply_paid
<1>2. PaidOrders' = PaidOrders \cup {o} /\ o \notin PaidOrders
  <2>1. order[o].status \in OPEN_CHECKOUT_STATUSES
    BY DEF apply_paid, creditable
  <2>2. \A q \in Orders : IF q = o THEN order'[q].status = "paid"
                          ELSE order'[q] = order[q]
    BY DEF apply_paid, PaymentTypeOK, OrderRow
  <2>3. QED
    BY <2>1, <2>2 DEF PaidOrders, OPEN_CHECKOUT_STATUSES
<1>3. SumFunctionOnSet(CreditOf, PaidOrders') = SumFunctionOnSet(CreditOf, PaidOrders) + n
  <2>1. \A q \in PaidOrders : CreditOf[q] \in Int
    BY PaidFacts
  <2>2. QED
    BY <1>1, <1>2, <2>1, PaidFacts, SumWith
<1> HIDE DEF n
<1>4. /\ SumFunctionOnSet(CreditOf, PaidOrders') =
            SumFunctionOnSet(CreditOf, PaidOrders) - (-n)
      /\ SumFunctionOnSet(outstanding', Orders) =
            SumFunctionOnSet(outstanding, Orders) - 0
      /\ -n \in Int /\ 0 \in Int /\ n \in Int
  BY <1>1, <1>3, PaidFacts
<1>5. QED
  BY <1>1, <1>4, PaidFacts, BooksKept

(* A refund takes its order out again, and carries what is left as risk.   *)
LEMMA RefundBooks ==
    ASSUME PaymentTypeOK, BooksMatchPayments, NEW o \in Orders, NEW key,
           apply_refund(o, key)
    PROVE  BooksMatchPayments'
<1> DEFINE n == CreditOf[o]
           shortfall == n - recovered(o)
<1>1. n \in Nat /\ recovered(o) \in Nat /\ shortfall \in Nat
      /\ Booked(-recovered(o), 0, n, -shortfall)
  BY RefundBooked, PaidFacts
<1>2. PaidOrders' = PaidOrders \ {o} /\ o \in PaidOrders
  <2>1. order[o].status \in {"paid", "refunding"}
    BY DEF apply_refund, refundable
  <2>2. \A q \in Orders : IF q = o THEN order'[q].status = "refunded"
                          ELSE order'[q] = order[q]
    BY DEF apply_refund, PaymentTypeOK, OrderRow
  <2>3. QED
    BY <2>1, <2>2 DEF PaidOrders
<1>3. SumFunctionOnSet(CreditOf, PaidOrders') = SumFunctionOnSet(CreditOf, PaidOrders) - n
  <2>1. \A q \in PaidOrders : CreditOf[q] \in Int
    BY PaidFacts
  <2>2. /\ SumFunctionOnSet(CreditOf, PaidOrders)
              = n + SumFunctionOnSet(CreditOf, PaidOrders \ {o})
        /\ SumFunctionOnSet(CreditOf, PaidOrders \ {o}) \in Int
    BY <1>2, <2>1, PaidFacts, SumWithout
  <2> HIDE DEF n
  <2>3. QED
    BY <1>1, <1>2, <2>2
<1>4. SumFunctionOnSet(outstanding', Orders)
        = SumFunctionOnSet(outstanding, Orders) + shortfall
  <2>1. outstanding' = [outstanding EXCEPT ![o] = @ + shortfall]
    BY DEF apply_refund
  <2>2. outstanding \in [Orders -> Nat]
    BY DEF PaymentTypeOK
  <2> HIDE DEF shortfall
  <2>3. /\ \A q \in Orders \ {o} : outstanding'[q] = outstanding[q]
        /\ outstanding'[o] = outstanding[o] + shortfall
        /\ outstanding'[o] \in Int
    BY <1>1, <2>1, <2>2
  <2>4. \A q \in Orders : outstanding[q] \in Int
    BY <2>2
  <2>5. SumFunctionOnSet(outstanding', Orders)
          = SumFunctionOnSet(outstanding, Orders) + (outstanding'[o] - outstanding[o])
    BY <2>3, <2>4, PaidFacts, SumChanged
  <2>6. outstanding'[o] - outstanding[o] = shortfall
    BY <1>1, <2>2, <2>3
  <2>7. QED
    BY <2>5, <2>6
<1> HIDE DEF n, shortfall
<1>5. /\ SumFunctionOnSet(outstanding', Orders) =
            SumFunctionOnSet(outstanding, Orders) - (-shortfall)
      /\ -shortfall \in Int /\ 0 \in Int /\ n \in Int /\ -recovered(o) \in Int
  BY <1>1, <1>4, PaidFacts
<1>6. QED
  BY <1>1, <1>3, <1>5, PaidFacts, BooksKept

(* Closing a risk takes its order's part of it off.                        *)
LEMMA ResolveBooks ==
    ASSUME PaymentTypeOK, BooksMatchPayments, NEW o \in Orders,
           NEW action \in {"recover_available", "write_off"},
           resolve_refund_risk(o, action)
    PROVE  BooksMatchPayments'
<1>1. PICK taken \in Nat : Booked(-taken, 0, 0, outstanding[o])
  BY ResolveBooked
<1>2. PaidOrders' = PaidOrders
  BY DEF resolve_refund_risk, PaidOrders
<1>3. SumFunctionOnSet(outstanding', Orders)
        = SumFunctionOnSet(outstanding, Orders) - outstanding[o]
  <2>1. outstanding' = [outstanding EXCEPT ![o] = 0]
    BY DEF resolve_refund_risk
  <2>2. outstanding \in [Orders -> Nat]
    BY DEF PaymentTypeOK
  <2>3. /\ \A q \in Orders \ {o} : outstanding'[q] = outstanding[q]
        /\ outstanding'[o] = 0 /\ outstanding'[o] \in Int
    BY <2>1, <2>2
  <2>4. \A q \in Orders : outstanding[q] \in Int
    BY <2>2
  <2>5. SumFunctionOnSet(outstanding', Orders)
          = SumFunctionOnSet(outstanding, Orders) + (outstanding'[o] - outstanding[o])
    BY <2>3, <2>4, PaidFacts, SumChanged
  <2>6. QED
    BY <2>2, <2>3, <2>5, PaidFacts
<1>4. /\ SumFunctionOnSet(CreditOf, PaidOrders') =
            SumFunctionOnSet(CreditOf, PaidOrders) - 0
      /\ -taken \in Int /\ 0 \in Int /\ outstanding[o] \in Int
  BY <1>1, <1>2, PaidFacts
<1>5. QED
  BY <1>1, <1>3, <1>4, PaidFacts, BooksKept

(* Model requests move neither sum.                                        *)
LEMMA HoldBooks ==
    ASSUME PaymentTypeOK, BooksMatchPayments, NEW n \in HoldAmounts,
           hold_credit(n) \/ \E charged \in 0..n : finalize_hold(n, charged)
    PROVE  BooksMatchPayments'
<1>1. n \in Nat
  BY PaymentAssumption
<1>2. PICK a \in Int, r \in Int : Booked(a, r, 0, 0)
  <2>1. CASE hold_credit(n)
    BY <1>1, <2>1, HoldBooked
  <2>2. CASE \E charged \in 0..n : finalize_hold(n, charged)
    <3>1. PICK charged \in 0..n : finalize_hold(n, charged)
      BY <2>2
    <3>2. Booked(n - charged, -n, 0, 0) /\ n - charged \in Int /\ -n \in Int
      BY <1>1, <3>1, FinalizeBooked
    <3>3. QED
      BY <3>2
  <2>3. QED
    BY <2>1, <2>2
<1>3. PaidOrders' = PaidOrders /\ outstanding' = outstanding
  BY DEF hold_credit, finalize_hold, PaidOrders
<1>4. /\ SumFunctionOnSet(CreditOf, PaidOrders') =
            SumFunctionOnSet(CreditOf, PaidOrders) - 0
      /\ SumFunctionOnSet(outstanding', Orders) =
            SumFunctionOnSet(outstanding, Orders) - 0
      /\ 0 \in Int
  BY <1>3, PaidFacts
<1>5. QED
  BY <1>2, <1>4, PaidFacts, BooksKept

LEMMA BooksStep ==
    PaymentTypeOK /\ BooksMatchPayments /\ [PaymentNext]_paymentVars
      => BooksMatchPayments'
<1> SUFFICES ASSUME PaymentTypeOK, BooksMatchPayments, [PaymentNext]_paymentVars
             PROVE  BooksMatchPayments'
  OBVIOUS
<1>1. CASE Quiet
  BY <1>1 DEF Quiet, BooksMatchPayments
<1>2. QED
  BY <1>1, MoneySteps, CreditBooks, RefundBooks, ResolveBooks, HoldBooks

(* What clearing owes is the credit of the orders that are paid and not    *)
(* refunded, each booked once; risk is what refunds could not take back;   *)
(* the wallet is the journal's sum; and the journal cancels.               *)
THEOREM BooksMatchPaymentsHolds == PaymentSpec => []BooksMatchPayments
<1>1. PaymentInit => PaymentTypeOK /\ BooksMatchPayments
  BY PaymentTypeInit, BooksInit
<1>2. PaymentTypeOK /\ BooksMatchPayments /\ [PaymentNext]_paymentVars
        => (PaymentTypeOK /\ BooksMatchPayments)'
  BY PaymentTypeStep, BooksStep
<1>3. QED
  BY <1>1, <1>2, PTL DEF PaymentSpec
=============================================================================
