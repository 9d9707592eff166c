--------------------------- MODULE Billing_proofs ---------------------------
(* Theorems about Billing, for every value of its constants.               *)
EXTENDS Billing, Sums_proofs

-----------------------------------------------------------------------------
(* Arithmetic of holds and costs                                           *)

(* A token cost is a natural number.                                       *)
LEMMA TokenCostNat ==
    ASSUME NEW t \in Nat, NEW p \in Nat
    PROVE  token_cost(t, p) \in Nat
<1>1. t * p \in Nat
  OBVIOUS
<1>2. QED
  BY <1>1 DEF token_cost

(* More tokens never cost less.                                            *)
LEMMA TokenCostMonotone ==
    ASSUME NEW a \in Nat, NEW b \in Nat, NEW p \in Nat, a <= b
    PROVE  token_cost(a, p) <= token_cost(b, p)
<1>1. a * p \in Nat /\ b * p \in Nat
  OBVIOUS
<1>2. a * p <= b * p
  OBVIOUS
<1>3. QED
  BY <1>1, <1>2 DEF token_cost

(* The cost of any usage is a natural number.                              *)
LEMMA UsageCostNat ==
    ASSUME NEW price \in Price, NEW i \in Nat, NEW o \in Nat
    PROVE  usage_cost(price, i, o) \in Nat
<1>1. price.input \in Nat /\ price.output \in Nat
  BY DEF Price
<1>2. token_cost(i, price.input) \in Nat /\ token_cost(o, price.output) \in Nat
  BY <1>1, TokenCostNat
<1>3. QED
  BY <1>2 DEF usage_cost

(* The bound on input tokens is a natural number.                          *)
LEMMA BoundNat ==
    ASSUME NEW p \in Payload
    PROVE  input_token_reservation_upper_bound(p) \in Nat
  BY DEF input_token_reservation_upper_bound, MaxOf, Payload

(* A hold is a positive amount.                                            *)
LEMMA ReserveAmountPositive ==
    ASSUME NEW price \in Price, NEW p \in Payload
    PROVE  reserve_amount(price, p) \in Nat \ {0}
<1>1. usage_cost(price, input_token_reservation_upper_bound(p), p.max_output) \in Nat
  BY BoundNat, UsageCostNat DEF Payload
<1>2. QED
  BY <1>1 DEF reserve_amount, MaxOf

(* Usage within the bounds a request was admitted with costs no more than  *)
(* its hold, at the price it was admitted with.                            *)
LEMMA HoldCoversUsage ==
    ASSUME NEW price \in Price, NEW p \in Payload, NEW i \in Nat, NEW o \in Nat,
           i <= input_token_reservation_upper_bound(p), o <= p.max_output
    PROVE  usage_cost(price, i, o) <= reserve_amount(price, p)
<1> DEFINE bound == input_token_reservation_upper_bound(p)
<1>1. bound \in Nat /\ p.max_output \in Nat /\ price.input \in Nat /\ price.output \in Nat
  BY BoundNat DEF Payload, Price
<1>2. token_cost(i, price.input) <= token_cost(bound, price.input)
  BY <1>1, TokenCostMonotone
<1>3. token_cost(o, price.output) <= token_cost(p.max_output, price.output)
  BY <1>1, TokenCostMonotone
<1>4. /\ token_cost(i, price.input) \in Nat /\ token_cost(bound, price.input) \in Nat
      /\ token_cost(o, price.output) \in Nat
      /\ token_cost(p.max_output, price.output) \in Nat
  BY <1>1, TokenCostNat
<1>5. QED
  BY <1>2, <1>3, <1>4 DEF usage_cost, reserve_amount, MaxOf

-----------------------------------------------------------------------------
(* Journal entries                                                         *)

(* Reserving moves the hold from the available to the reserved account.    *)
LEMMA PostReserve ==
    ASSUME NEW l \in [Accounts -> Int], NEW hold \in Nat
    PROVE  LET m == Post(l, ReserveEntries(hold))
           IN  /\ m \in [Accounts -> Int]
               /\ m[CUSTOMER_AVAILABLE] = l[CUSTOMER_AVAILABLE] - hold
               /\ m[CUSTOMER_RESERVED] = l[CUSTOMER_RESERVED] + hold
               /\ TotalOf(m) = TotalOf(l)
  BY DEF Post, ReserveEntries, Amount, TotalOf, Accounts, CUSTOMER_AVAILABLE,
         CUSTOMER_RESERVED, PLATFORM_CLEARING, PLATFORM_REVENUE, PLATFORM_RISK,
         PLATFORM_LOSS, PLATFORM_PROVIDER_EXPENSE, PLATFORM_PROVIDER_PAYABLE

(* Releasing moves it back.                                                *)
LEMMA PostRelease ==
    ASSUME NEW l \in [Accounts -> Int], NEW hold \in Nat
    PROVE  LET m == Post(l, ReleaseEntries(hold))
           IN  /\ m \in [Accounts -> Int]
               /\ m[CUSTOMER_AVAILABLE] = l[CUSTOMER_AVAILABLE] + hold
               /\ m[CUSTOMER_RESERVED] = l[CUSTOMER_RESERVED] - hold
               /\ TotalOf(m) = TotalOf(l)
  BY DEF Post, ReleaseEntries, Amount, TotalOf, Accounts, CUSTOMER_AVAILABLE,
         CUSTOMER_RESERVED, PLATFORM_CLEARING, PLATFORM_REVENUE, PLATFORM_RISK,
         PLATFORM_LOSS, PLATFORM_PROVIDER_EXPENSE, PLATFORM_PROVIDER_PAYABLE

(* Settling takes the whole hold, gives back what was not charged, and the *)
(* other accounts absorb the rest, also when cost passes the hold.         *)
LEMMA PostSettle ==
    ASSUME NEW l \in [Accounts -> Int], NEW hold \in Nat, NEW cost \in Nat,
           NEW up \in Nat
    PROVE  LET m == Post(l, SettleEntries(hold, cost, up))
           IN  /\ m \in [Accounts -> Int]
               /\ m[CUSTOMER_AVAILABLE]
                    = l[CUSTOMER_AVAILABLE] + (hold - MinOf(cost, hold))
               /\ m[CUSTOMER_RESERVED] = l[CUSTOMER_RESERVED] - hold
               /\ TotalOf(m) = TotalOf(l)
<1> DEFINE charged == MinOf(cost, hold)
<1>1. charged \in Nat
  BY DEF MinOf
<1> HIDE DEF charged
<1>2. QED
  BY <1>1 DEF charged, Post, SettleEntries, Amount, TotalOf, Accounts, CUSTOMER_AVAILABLE,
         CUSTOMER_RESERVED, PLATFORM_CLEARING, PLATFORM_REVENUE, PLATFORM_RISK,
         PLATFORM_LOSS, PLATFORM_PROVIDER_EXPENSE, PLATFORM_PROVIDER_PAYABLE

-----------------------------------------------------------------------------
(* Type correctness                                                        *)

(* What a settlement computes from a well-typed row.                       *)
LEMMA SettleFacts ==
    ASSUME TypeOK, NEW t \in open, NEW response \in Responses
    PROVE  LET old == request[t.req]
               usage == usage_from_response(response, old.input_tokens)
               cost == usage_cost(PriceList[old.price], usage.input, usage.output)
           IN  /\ old \in RequestRow
               /\ usage.input \in Nat /\ usage.output \in Nat
               /\ cost \in Nat
               /\ MinOf(cost, old.hold) \in Nat
               /\ MinOf(cost, old.hold) <= old.hold
<1> DEFINE old == request[t.req]
           usage == usage_from_response(response, old.input_tokens)
           cost == usage_cost(PriceList[old.price], usage.input, usage.output)
<1>1. old \in RequestRow
  BY DEF TypeOK, Transaction
<1>2. usage.input \in Nat /\ usage.output \in Nat
  BY <1>1, ConstantsAssumption DEF usage_from_response, Response, RequestRow
<1>3. PriceList[old.price] \in Price
  BY <1>1, PriceListAssumption DEF RequestRow
<1>4. cost \in Nat
  BY <1>2, <1>3, UsageCostNat
<1>5. old.hold \in Nat
  BY <1>1 DEF RequestRow
<1>6. QED
  BY <1>1, <1>2, <1>4, <1>5 DEF MinOf

(* The common half of settling and releasing keeps the types.              *)
LEMMA FinalizeType ==
    ASSUME TypeOK, NEW t \in open, t.op \in {"settle", "release"},
           NEW charged \in Nat, charged <= request[t.req].hold,
           NEW entries, Post(ledger, entries) \in [Accounts -> Int],
           NEW row \in RequestRow, Finalize(t, charged, entries, row)
    PROVE  TypeOK'
<1>1. t.req \in Requests /\ request[t.req] \in RequestRow
  BY DEF TypeOK, Transaction
<1>2. /\ request[t.req].hold \in Nat
      /\ request[t.req].budget \in BudgetIds \cup {NoBudget}
  BY <1>1 DEF RequestRow
<1> DEFINE hold == request[t.req].hold
<1>a. /\ wallet.reserved >= hold
      /\ request[t.req].budget # NoBudget => budget[request[t.req].budget].reserved >= hold
      /\ wallet' = [balance  |-> wallet.balance + (hold - charged),
                    reserved |-> wallet.reserved - hold]
      /\ ledger' = Post(ledger, entries)
      /\ posted' = posted \cup {<<t.req, t.op>>}
      /\ open' = open \ {t}
      /\ UNCHANGED <<admissible, month, version, overlapped>>
  BY DEF Finalize, CanFinalize
<1>c. request' = [request EXCEPT ![t.req] = row]
  BY DEF Finalize
<1>d. budget' = [b \in BudgetIds |->
                   IF b = request[t.req].budget
                   THEN [budget[b] EXCEPT !.reserved = @ - hold,
                                          !.spent = @ + charged]
                   ELSE budget[b]]
  BY DEF Finalize
<1>b. hold \in Nat /\ charged <= hold
  BY <1>2
<1> HIDE DEF hold
<1>3. wallet' \in [balance : Nat, reserved : Nat]
  <2>1. wallet.balance \in Nat /\ wallet.reserved \in Nat
    BY DEF TypeOK
  <2>2. wallet.balance + (hold - charged) \in Nat /\ wallet.reserved - hold \in Nat
    BY <1>a, <1>b, <2>1
  <2>3. wallet' = [balance  |-> wallet.balance + (hold - charged),
                   reserved |-> wallet.reserved - hold]
    BY <1>a
  <2>4. QED
    BY <2>2, <2>3
<1>4. budget' \in [BudgetIds -> BudgetRow]
  <2>1. ASSUME NEW b \in BudgetIds, b = request[t.req].budget
        PROVE  [budget[b] EXCEPT !.reserved = @ - hold, !.spent = @ + charged]
                 \in BudgetRow
    <3>1. budget[b] \in BudgetRow
      BY DEF TypeOK
    <3>2. b # NoBudget
      BY ConstantsAssumption
    <3>3. budget[b].reserved >= hold
      BY <1>a, <2>1, <3>2
    <3>4. budget[b].reserved - hold \in Nat /\ budget[b].spent + charged \in Nat
      BY <1>b, <3>1, <3>3 DEF BudgetRow
    <3>5. QED
      BY <3>1, <3>4 DEF BudgetRow
  <2>2. QED
    BY <1>d, <2>1 DEF TypeOK
<1>5. request' \in [Requests -> RequestRow]
  BY <1>1, <1>c DEF TypeOK
<1>6. posted' \subseteq Requests \X Kinds
  BY <1>1, <1>a DEF TypeOK, Kinds
<1>7. ledger' \in [Accounts -> Int] /\ open' \subseteq Transaction
  BY <1>a DEF TypeOK
<1>8. QED
  BY <1>a, <1>3, <1>4, <1>5, <1>6, <1>7 DEF TypeOK

LEMMA SettleType ==
    ASSUME TypeOK, NEW t \in open, NEW response \in Responses,
           NEW up \in UpstreamCosts, settle_model_request(t, response, up)
    PROVE  TypeOK'
<1> DEFINE old == request[t.req]
           usage == usage_from_response(response, old.input_tokens)
           cost == usage_cost(PriceList[old.price], usage.input, usage.output)
           charged == MinOf(cost, old.hold)
           row == [old EXCEPT !.status = IF cost <= old.hold
                                         THEN "settled" ELSE "under_reserved",
                              !.charged = charged,
                              !.input_tokens = usage.input,
                              !.output_tokens = usage.output]
<1>1. /\ old \in RequestRow
      /\ usage.input \in Nat /\ usage.output \in Nat
      /\ cost \in Nat /\ charged \in Nat /\ charged <= old.hold
  BY SettleFacts
<1>2. t.op = "settle" /\ Finalize(t, charged, SettleEntries(old.hold, cost, up), row)
  BY DEF settle_model_request
<1>3. old.hold \in Nat /\ up \in Nat /\ ledger \in [Accounts -> Int]
  BY <1>1, ConstantsAssumption DEF RequestRow, TypeOK
<1>4. Post(ledger, SettleEntries(old.hold, cost, up)) \in [Accounts -> Int]
  BY <1>1, <1>3, PostSettle
<1> HIDE DEF usage, cost, charged
<1>5. row \in RequestRow
  BY <1>1 DEF RequestRow, FinalStatuses
<1> HIDE DEF row
<1>6. QED
  BY <1>1, <1>2, <1>4, <1>5, FinalizeType

LEMMA ReleaseType ==
    ASSUME TypeOK, NEW t \in open, release_model_request(t)
    PROVE  TypeOK'
<1> DEFINE old == request[t.req]
           row == [old EXCEPT !.status = IF t.from = "reserved"
                                         THEN "failed" ELSE "reconciled_released"]
<1>1. old \in RequestRow /\ old.hold \in Nat /\ ledger \in [Accounts -> Int]
  BY DEF TypeOK, Transaction, RequestRow
<1>2. t.op = "release" /\ Finalize(t, 0, ReleaseEntries(old.hold), row)
  BY DEF release_model_request
<1>3. Post(ledger, ReleaseEntries(old.hold)) \in [Accounts -> Int]
  BY <1>1, PostRelease
<1>4. row \in RequestRow
  BY <1>1 DEF RequestRow, FinalStatuses
<1> HIDE DEF row
<1>5. QED
  BY <1>1, <1>2, <1>3, <1>4, FinalizeType

(* What a reservation computes.                                            *)
LEMMA ReserveFacts ==
    ASSUME NEW r \in Requests, NEW v \in DOMAIN PriceList
    PROVE  /\ Payloads[r] \in Payload
           /\ PriceList[v] \in Price
           /\ reserve_amount(PriceList[v], Payloads[r]) \in Nat \ {0}
           /\ estimate_tokens(Payloads[r].chars) \in Nat
<1>1. Payloads[r] \in Payload /\ PriceList[v] \in Price
  BY ConstantsAssumption, PriceListAssumption
<1>2. Payloads[r].chars \in Nat
  BY <1>1 DEF Payload
<1>3. QED
  BY <1>1, <1>2, ReserveAmountPositive DEF estimate_tokens, MaxOf

LEMMA ReserveType ==
    ASSUME TypeOK, NEW r \in Requests,
           NEW v \in DOMAIN PriceList, reserve_model_request(r, v)
    PROVE  TypeOK'
<1> DEFINE hold == reserve_amount(PriceList[v], Payloads[r])
           est == estimate_tokens(Payloads[r].chars)
<1>1. hold \in Nat /\ est \in Nat /\ ledger \in [Accounts -> Int]
  BY ReserveFacts DEF TypeOK
<1>2. Post(ledger, ReserveEntries(hold)) \in [Accounts -> Int]
  BY <1>1, PostReserve
<1>3. PICK b \in BudgetIds \cup {NoBudget} :
        /\ budget' = [c \in BudgetIds |->
                        IF c = b
                        THEN [budget[c] EXCEPT !.reserved = @ + hold]
                        ELSE budget[c]]
        /\ request' = [request EXCEPT ![r] =
             [status        |-> "reserved",
              hold          |-> hold,
              budget        |-> b,
              price         |-> v,
              charged       |-> 0,
              input_tokens  |-> est,
              output_tokens |-> 0]]
  BY DEF reserve_model_request
<1>4. /\ wallet.balance >= hold
      /\ wallet' = [balance  |-> wallet.balance - hold,
                    reserved |-> wallet.reserved + hold]
      /\ ledger' = Post(ledger, ReserveEntries(hold))
      /\ posted' = posted \cup {<<r, "reserve">>}
      /\ UNCHANGED <<admissible, month, version, open, overlapped>>
  BY DEF reserve_model_request, wallet_covers
<1> HIDE DEF hold, est
<1>5. wallet' \in [balance : Nat, reserved : Nat]
  BY <1>1, <1>4 DEF TypeOK
<1>6. budget' \in [BudgetIds -> BudgetRow]
  BY <1>1, <1>3 DEF TypeOK, BudgetRow
<1>7. request' \in [Requests -> RequestRow]
  BY <1>1, <1>3 DEF TypeOK, RequestRow, OpenStatuses
<1>8. posted' \subseteq Requests \X Kinds
  BY <1>4 DEF TypeOK, Kinds
<1>9. QED
  BY <1>2, <1>4, <1>5, <1>6, <1>7, <1>8 DEF TypeOK

LEMMA CreateBudgetType ==
    ASSUME TypeOK, NEW limit \in BudgetLimits, NEW start \in Months,
           create_budget(limit, start)
    PROVE  TypeOK'
<1>1. limit \in Nat /\ start \in Nat
  BY ConstantsAssumption DEF Months
<1>2. \A b \in BudgetIds : budget[b] \in BudgetRow
  BY DEF TypeOK
<1>3. PICK new \in BudgetIds, current \in BudgetIds \cup {NoBudget} :
        LET row == [status   |-> "active",
                    limit    |-> limit,
                    spent    |-> IF current = NoBudget
                                 THEN 0 ELSE budget[current].spent,
                    reserved |-> 0,
                    month    |-> start]
        IN  budget' = [b \in BudgetIds |->
                         IF b = new THEN row
                            ELSE IF b = current
                                 THEN [budget[b] EXCEPT !.status = "superseded"]
                                 ELSE budget[b]]
  BY DEF create_budget, replaceable, carried_spend
<1>4. budget' \in [BudgetIds -> BudgetRow]
  BY <1>1, <1>2, <1>3 DEF BudgetRow
<1>5. QED
  BY <1>4 DEF TypeOK, create_budget

(* The steps that leave most of the state alone.                           *)
LEMMA OtherType ==
    ASSUME TypeOK,
           \/ \E s \in Sessions, r \in Requests, op \in {"settle", "release", "mark"},
                 from \in OpenStatuses : Open(s, r, op, from)
           \/ \E t \in open : mark_pending_reconciliation(t) \/ Rollback(t)
           \/ \E stale \in SUBSET Requests : recover_stale_model_reservations(stale)
           \/ ChangeAdmission \/ NextMonth \/ seed_prices
           \/ UNCHANGED vars
    PROVE  TypeOK'
<1>1. CASE \E s \in Sessions, r \in Requests, op \in {"settle", "release", "mark"},
             from \in OpenStatuses : Open(s, r, op, from)
  BY <1>1 DEF TypeOK, Open, Transaction
<1>2. CASE \E t \in open : mark_pending_reconciliation(t)
  <2>1. PICK t \in open : mark_pending_reconciliation(t)
    BY <1>2
  <2>2. t.req \in Requests /\ request[t.req] \in RequestRow
    BY DEF TypeOK, Transaction
  <2>3. [request[t.req] EXCEPT !.status = "pending_reconciliation"] \in RequestRow
    BY <2>2 DEF RequestRow, OpenStatuses
  <2>4. request' \in [Requests -> RequestRow]
    BY <2>1, <2>2, <2>3 DEF TypeOK, mark_pending_reconciliation
  <2>5. QED
    BY <2>1, <2>4 DEF TypeOK, mark_pending_reconciliation
<1>3. CASE \E t \in open : Rollback(t)
  BY <1>3 DEF TypeOK, Rollback
<1>4. CASE \E stale \in SUBSET Requests : recover_stale_model_reservations(stale)
  <2>1. PICK stale \in SUBSET Requests : recover_stale_model_reservations(stale)
    BY <1>4
  <2>2. ASSUME NEW r \in Requests
        PROVE  [request[r] EXCEPT !.status = "pending_reconciliation"] \in RequestRow
    <3>1. request[r] \in RequestRow
      BY DEF TypeOK
    <3>2. QED
      BY <3>1 DEF RequestRow, OpenStatuses
  <2>3. request' \in [Requests -> RequestRow]
    BY <2>1, <2>2 DEF TypeOK, recover_stale_model_reservations
  <2>4. QED
    BY <2>1, <2>3 DEF TypeOK, recover_stale_model_reservations
<1>5. CASE ChangeAdmission
  BY <1>5 DEF TypeOK, ChangeAdmission
<1>6. CASE NextMonth
  BY <1>6, ConstantsAssumption DEF TypeOK, NextMonth, Months
<1>7. CASE seed_prices
  BY <1>7 DEF TypeOK, seed_prices
<1>8. CASE UNCHANGED vars
  BY <1>8 DEF TypeOK, vars
<1>9. QED
  BY <1>1, <1>2, <1>3, <1>4, <1>5, <1>6, <1>7, <1>8

LEMMA TypeInit == Init => TypeOK
<1> SUFFICES ASSUME Init PROVE TypeOK
  OBVIOUS
<1>1. ledger \in [Accounts -> Int]
  BY ConstantsAssumption
  DEF Init, Post, EmptyLedger, Amount, Accounts, CUSTOMER_AVAILABLE,
      CUSTOMER_RESERVED, PLATFORM_CLEARING, PLATFORM_REVENUE, PLATFORM_RISK,
      PLATFORM_LOSS, PLATFORM_PROVIDER_EXPENSE, PLATFORM_PROVIDER_PAYABLE
<1>2. NoRequestRow \in RequestRow /\ NoBudgetRow \in BudgetRow
  BY PriceListAssumption DEF NoRequestRow, RequestRow, NoBudgetRow, BudgetRow
<1>3. month \in Months /\ version \in DOMAIN PriceList
  BY ConstantsAssumption, PriceListAssumption DEF Init, Months
<1>4. QED
  BY <1>1, <1>2, <1>3, ConstantsAssumption DEF Init, TypeOK

LEMMA TypeStep == TypeOK /\ [Next]_vars => TypeOK'
<1> SUFFICES ASSUME TypeOK, [Next]_vars PROVE TypeOK'
  OBVIOUS
<1>1. CASE \E r \in Requests, v \in DOMAIN PriceList : reserve_model_request(r, v)
  BY <1>1, ReserveType
<1>2. CASE \E t \in open, response \in Responses, up \in UpstreamCosts :
             settle_model_request(t, response, up)
  BY <1>2, SettleType
<1>3. CASE \E t \in open : release_model_request(t)
  BY <1>3, ReleaseType
<1>4. CASE \E limit \in BudgetLimits, start \in Months : create_budget(limit, start)
  BY <1>4, CreateBudgetType
<1>5. QED
  BY <1>1, <1>2, <1>3, <1>4, OtherType DEF Next, Finalizers

(* Every reachable state is well typed: in particular no wallet or budget  *)
(* column goes negative, though the code subtracts from them in UPDATEs.   *)
THEOREM TypeCorrect == Spec => []TypeOK
  BY TypeInit, TypeStep, PTL DEF Spec

-----------------------------------------------------------------------------
(* What a committed finalization changes, whichever kind it is.            *)

Commits(t, charged, row) ==
    LET hold == request[t.req].hold
    IN  /\ t.op \in {"settle", "release"}
        /\ row.status \in FinalStatuses
        /\ row.hold = hold /\ row.price = request[t.req].price
        /\ row.budget = request[t.req].budget
        /\ t.op = "settle" => row.charged = charged
        /\ t.op = "release" => row.charged = request[t.req].charged /\ charged = 0
        /\ charged <= hold
        /\ wallet' = [balance  |-> wallet.balance + (hold - charged),
                      reserved |-> wallet.reserved - hold]
        /\ ledger'[CUSTOMER_AVAILABLE]
             = ledger[CUSTOMER_AVAILABLE] + (hold - charged)
        /\ ledger'[CUSTOMER_RESERVED] = ledger[CUSTOMER_RESERVED] - hold
        /\ TotalOf(ledger') = TotalOf(ledger)
        /\ request[t.req].budget # NoBudget =>
              budget[request[t.req].budget].reserved >= hold
        /\ <<t.req, t.op>> \notin posted
        /\ posted' = posted \cup {<<t.req, t.op>>}
        /\ request' = [request EXCEPT ![t.req] = row]
        /\ open' = open \ {t}
        /\ overlapped' = overlapped

LEMMA SettleCommits ==
    ASSUME TypeOK, NEW t \in open, NEW response \in Responses,
           NEW up \in UpstreamCosts, settle_model_request(t, response, up)
    PROVE  \E charged \in Nat, row \in RequestRow :
              /\ Commits(t, charged, row)
              /\ budget' = [b \in BudgetIds |->
                     IF b = request[t.req].budget
                     THEN [budget[b] EXCEPT !.reserved = @ - request[t.req].hold,
                                            !.spent = @ + charged]
                     ELSE budget[b]]
              /\ row.status = "under_reserved" =>
                    request[t.req].hold
                      < usage_cost(PriceList[row.price], row.input_tokens,
                                   row.output_tokens)
<1> DEFINE old == request[t.req]
           usage == usage_from_response(response, old.input_tokens)
           cost == usage_cost(PriceList[old.price], usage.input, usage.output)
           charged == MinOf(cost, old.hold)
           row == [old EXCEPT !.status = IF cost <= old.hold
                                         THEN "settled" ELSE "under_reserved",
                              !.charged = charged,
                              !.input_tokens = usage.input,
                              !.output_tokens = usage.output]
<1>1. /\ old \in RequestRow
      /\ usage.input \in Nat /\ usage.output \in Nat
      /\ cost \in Nat /\ charged \in Nat /\ charged <= old.hold
  BY SettleFacts
<1>2. t.op = "settle" /\ Finalize(t, charged, SettleEntries(old.hold, cost, up), row)
  BY DEF settle_model_request
<1>3. old.hold \in Nat /\ up \in Nat /\ ledger \in [Accounts -> Int]
  BY <1>1, ConstantsAssumption DEF RequestRow, TypeOK
<1>b. charged = MinOf(cost, old.hold)
  OBVIOUS
<1>c. cost = usage_cost(PriceList[old.price], usage.input, usage.output)
  OBVIOUS
<1> HIDE DEF usage, cost, charged
<1>4. LET m == Post(ledger, SettleEntries(old.hold, cost, up))
      IN  /\ m[CUSTOMER_AVAILABLE] = ledger[CUSTOMER_AVAILABLE] + (old.hold - charged)
          /\ m[CUSTOMER_RESERVED] = ledger[CUSTOMER_RESERVED] - old.hold
          /\ TotalOf(m) = TotalOf(ledger)
  <2>1. \A l \in [Accounts -> Int], h, c, u \in Nat :
           LET m == Post(l, SettleEntries(h, c, u))
           IN  /\ m[CUSTOMER_AVAILABLE] = l[CUSTOMER_AVAILABLE] + (h - MinOf(c, h))
               /\ m[CUSTOMER_RESERVED] = l[CUSTOMER_RESERVED] - h
               /\ TotalOf(m) = TotalOf(l)
    BY PostSettle
  <2>2. cost \in Nat
    BY <1>1
  <2> HIDE DEF old
  <2>3. LET m == Post(ledger, SettleEntries(old.hold, cost, up))
        IN  /\ m[CUSTOMER_AVAILABLE]
                 = ledger[CUSTOMER_AVAILABLE] + (old.hold - MinOf(cost, old.hold))
            /\ m[CUSTOMER_RESERVED] = ledger[CUSTOMER_RESERVED] - old.hold
            /\ TotalOf(m) = TotalOf(ledger)
    BY <1>3, <2>1, <2>2, ZenonT(30)
  <2>4. QED
    BY <1>b, <2>3, Zenon
<1>5. /\ row \in RequestRow
      /\ row.status \in FinalStatuses
      /\ row.hold = old.hold /\ row.price = old.price
      /\ row.budget = old.budget /\ row.charged = charged
      /\ row.input_tokens = usage.input /\ row.output_tokens = usage.output
      /\ row.status = "under_reserved" => old.hold < cost
  <2>1. row \in RequestRow
    BY <1>1 DEF RequestRow, FinalStatuses
  <2>2. /\ row.hold = old.hold /\ row.price = old.price
        /\ row.budget = old.budget /\ row.charged = charged
    BY <1>1 DEF RequestRow
  <2>3. row.input_tokens = usage.input /\ row.output_tokens = usage.output
    BY <1>1 DEF RequestRow
  <2>4. row.status = IF cost <= old.hold THEN "settled" ELSE "under_reserved"
    BY <1>1 DEF RequestRow
  <2> HIDE DEF row
  <2>5. QED
    BY <1>1, <1>3, <2>1, <2>2, <2>3, <2>4 DEF FinalStatuses
<1> HIDE DEF row
<1>6. budget' = [b \in BudgetIds |->
                   IF b = old.budget
                   THEN [budget[b] EXCEPT !.reserved = @ - old.hold,
                                          !.spent = @ + charged]
                   ELSE budget[b]]
  BY <1>2 DEF Finalize
<1>7. Commits(t, charged, row)
  BY <1>1, <1>2, <1>4, <1>5 DEF Commits, Finalize, CanFinalize
<1>8. row.status = "under_reserved" =>
        old.hold < usage_cost(PriceList[row.price], row.input_tokens, row.output_tokens)
  BY <1>5, <1>c
<1>9. QED
  BY <1>1, <1>5, <1>6, <1>7, <1>8

LEMMA ReleaseCommits ==
    ASSUME TypeOK, NEW t \in open, release_model_request(t)
    PROVE  \E charged \in Nat, row \in RequestRow :
              /\ Commits(t, charged, row)
              /\ budget' = [b \in BudgetIds |->
                     IF b = request[t.req].budget
                     THEN [budget[b] EXCEPT !.reserved = @ - request[t.req].hold,
                                            !.spent = @ + charged]
                     ELSE budget[b]]
              /\ row.status # "under_reserved"
<1> DEFINE old == request[t.req]
           row == [old EXCEPT !.status = IF t.from = "reserved"
                                         THEN "failed" ELSE "reconciled_released"]
<1>1. old \in RequestRow /\ old.hold \in Nat /\ ledger \in [Accounts -> Int]
  BY DEF TypeOK, Transaction, RequestRow
<1>2. t.op = "release" /\ Finalize(t, 0, ReleaseEntries(old.hold), row)
  BY DEF release_model_request
<1>3. LET m == Post(ledger, ReleaseEntries(old.hold))
      IN  /\ m[CUSTOMER_AVAILABLE] = ledger[CUSTOMER_AVAILABLE] + old.hold
          /\ m[CUSTOMER_RESERVED] = ledger[CUSTOMER_RESERVED] - old.hold
          /\ TotalOf(m) = TotalOf(ledger)
  BY <1>1, PostRelease
<1>4. /\ row \in RequestRow
      /\ row.status \in FinalStatuses /\ row.status # "under_reserved"
      /\ row.hold = old.hold /\ row.price = old.price
      /\ row.budget = old.budget /\ row.charged = old.charged
  BY <1>1 DEF RequestRow, FinalStatuses
<1> HIDE DEF row
<1>5. budget' = [b \in BudgetIds |->
                   IF b = old.budget
                   THEN [budget[b] EXCEPT !.reserved = @ - old.hold,
                                          !.spent = @ + 0]
                   ELSE budget[b]]
  BY <1>2 DEF Finalize
<1>6. /\ old.budget # NoBudget => budget[old.budget].reserved >= old.hold
      /\ <<t.req, t.op>> \notin posted
      /\ wallet' = [balance  |-> wallet.balance + (old.hold - 0),
                    reserved |-> wallet.reserved - old.hold]
      /\ ledger' = Post(ledger, ReleaseEntries(old.hold))
      /\ posted' = posted \cup {<<t.req, t.op>>}
      /\ open' = open \ {t}
      /\ overlapped' = overlapped
  BY <1>2 DEF Finalize, CanFinalize
<1>a. request' = [request EXCEPT ![t.req] = row]
  BY <1>2 DEF Finalize
<1>b. old.hold - 0 = old.hold /\ 0 <= old.hold
  BY <1>1
<1>7. Commits(t, 0, row)
  BY <1>2, <1>3, <1>4, <1>6, <1>a, <1>b DEF Commits
<1>8. QED
  BY <1>4, <1>5, <1>7

-----------------------------------------------------------------------------
(* The wallet agrees with the journal                                      *)

LEMMA WalletInit == Init => WalletMatchesLedger
  BY ConstantsAssumption
  DEF Init, WalletMatchesLedger, TotalOf, Post, EmptyLedger, Amount, Accounts,
      CUSTOMER_AVAILABLE, CUSTOMER_RESERVED, PLATFORM_CLEARING,
      PLATFORM_REVENUE, PLATFORM_RISK, PLATFORM_LOSS,
      PLATFORM_PROVIDER_EXPENSE, PLATFORM_PROVIDER_PAYABLE

LEMMA WalletStep ==
    TypeOK /\ WalletMatchesLedger /\ [Next]_vars => WalletMatchesLedger'
<1> SUFFICES ASSUME TypeOK, WalletMatchesLedger, [Next]_vars
             PROVE  WalletMatchesLedger'
  OBVIOUS
<1>1. CASE \E r \in Requests, v \in DOMAIN PriceList : reserve_model_request(r, v)
  <2>1. PICK r \in Requests, v \in DOMAIN PriceList : reserve_model_request(r, v)
    BY <1>1
  <2> DEFINE hold == reserve_amount(PriceList[v], Payloads[r])
  <2>2. hold \in Nat /\ ledger \in [Accounts -> Int]
    BY ReserveFacts DEF TypeOK
  <2>3. /\ wallet' = [balance  |-> wallet.balance - hold,
                      reserved |-> wallet.reserved + hold]
        /\ ledger' = Post(ledger, ReserveEntries(hold))
    BY <2>1 DEF reserve_model_request
  <2> HIDE DEF hold
  <2>4. /\ ledger'[CUSTOMER_AVAILABLE] = ledger[CUSTOMER_AVAILABLE] - hold
        /\ ledger'[CUSTOMER_RESERVED] = ledger[CUSTOMER_RESERVED] + hold
        /\ TotalOf(ledger') = TotalOf(ledger)
    BY <2>2, <2>3, PostReserve
  <2>5. QED
    BY <2>3, <2>4 DEF WalletMatchesLedger
<1>2. CASE \E t \in open : \/ \E response \in Responses, up \in UpstreamCosts :
                                 settle_model_request(t, response, up)
                           \/ release_model_request(t)
  <2>1. PICK t \in open, charged \in Nat, row \in RequestRow : Commits(t, charged, row)
    BY <1>2, SettleCommits, ReleaseCommits
  <2>2. QED
    BY <2>1 DEF Commits, WalletMatchesLedger
<1>3. CASE UNCHANGED <<wallet, ledger>>
  BY <1>3 DEF WalletMatchesLedger
<1>4. QED
  BY <1>1, <1>2, <1>3
  DEF Next, Finalizers, vars, Open, mark_pending_reconciliation, Rollback,
      recover_stale_model_reservations, create_budget, ChangeAdmission,
      NextMonth, seed_prices

(* In every reachable state, whoever calls the operations and however they *)
(* interleave, the wallet columns are the journal sums of the customer's   *)
(* accounts and the journal cancels.                                       *)
THEOREM WalletAgreesWithJournal == Spec => []WalletMatchesLedger
  BY TypeInit, TypeStep, WalletInit, WalletStep, PTL DEF Spec

-----------------------------------------------------------------------------
(* Budgets                                                                 *)

BudgetInv == BudgetWithinLimit /\ OneActiveBudget

LEMMA BudgetInit == Init => BudgetInv
  BY DEF Init, BudgetInv, BudgetWithinLimit, OneActiveBudget, NoBudgetRow

(* A reservation adds its hold to the one active budget, which has room.   *)
LEMMA BudgetReserve ==
    ASSUME TypeOK, BudgetInv, NEW r \in Requests,
           NEW v \in DOMAIN PriceList, reserve_model_request(r, v)
    PROVE  BudgetInv'
<1> DEFINE hold == reserve_amount(PriceList[v], Payloads[r])
<1>1. hold \in Nat
  BY ReserveFacts
<1>2. PICK b \in BudgetIds \cup {NoBudget} :
        /\ active_budget(b)
        /\ b # NoBudget =>
              budget[b].limit - budget[b].spent - budget[b].reserved >= hold
        /\ budget' = [c \in BudgetIds |->
                        IF c = b
                        THEN [budget[c] EXCEPT !.reserved = @ + hold]
                        ELSE budget[c]]
  BY DEF reserve_model_request, covers
<1> HIDE DEF hold
<1>3. ASSUME NEW c \in BudgetIds
      PROVE  /\ c # b => budget'[c] = budget[c]
             /\ c = b => /\ budget'[c].status = "active"
                         /\ budget'[c].status = budget[c].status
                         /\ budget'[c].month = budget[c].month
                         /\ budget'[c].limit = budget[c].limit
                         /\ budget'[c].spent = budget[c].spent
                         /\ budget'[c].reserved = budget[c].reserved + hold
  <2>1. budget[c] \in BudgetRow
    BY DEF TypeOK
  <2>2. c # NoBudget
    BY ConstantsAssumption
  <2>3. c = b => budget[c].status = "active"
    BY <1>2, <2>2 DEF active_budget, newest_active
  <2>4. budget'[c] = IF c = b THEN [budget[c] EXCEPT !.reserved = @ + hold]
                     ELSE budget[c]
    BY <1>2
  <2>5. QED
    BY <2>1, <2>3, <2>4 DEF BudgetRow
<1>4. BudgetWithinLimit'
  <2>1. ASSUME NEW c \in BudgetIds
        PROVE  budget'[c].spent + budget'[c].reserved <= budget'[c].limit
    <3>1. /\ budget[c].spent \in Nat /\ budget[c].reserved \in Nat
          /\ budget[c].limit \in Nat
          /\ budget[c].spent + budget[c].reserved <= budget[c].limit
      BY DEF TypeOK, BudgetRow, BudgetInv, BudgetWithinLimit
    <3>2. c # NoBudget
      BY ConstantsAssumption
    <3>3. c = b => budget[c].limit - budget[c].spent - budget[c].reserved >= hold
      BY <1>2, <3>2
    <3>4. QED
      BY <1>1, <1>3, <3>1, <3>3
  <2>2. QED
    BY <2>1 DEF BudgetWithinLimit
<1>5. OneActiveBudget'
  BY <1>3 DEF BudgetInv, OneActiveBudget
<1>6. QED
  BY <1>4, <1>5 DEF BudgetInv

(* What a finalization of t does to the budgets.                           *)
MovesHold(t, charged) ==
    budget' = [b \in BudgetIds |->
                 IF b = request[t.req].budget
                 THEN [budget[b] EXCEPT !.reserved = @ - request[t.req].hold,
                                        !.spent = @ + charged]
                 ELSE budget[b]]

(* A finalization moves at most the hold from reserved to spent, and a     *)
(* budget that is no longer active has nothing to move.                    *)
LEMMA BudgetFinalize ==
    ASSUME TypeOK, BudgetInv, NEW t \in open, NEW charged \in Nat,
           charged <= request[t.req].hold,
           request[t.req].budget # NoBudget =>
              budget[request[t.req].budget].reserved >= request[t.req].hold,
           MovesHold(t, charged)
    PROVE  BudgetInv'
<1> DEFINE hold == request[t.req].hold
           bud == request[t.req].budget
<1>1. hold \in Nat
  BY DEF TypeOK, Transaction, RequestRow
<1> HIDE DEF hold
<1>3. ASSUME NEW c \in BudgetIds
      PROVE  /\ budget[c].reserved \in Nat /\ budget[c].spent \in Nat
             /\ budget[c].limit \in Nat
             /\ c # bud => budget'[c] = budget[c]
             /\ c = bud => /\ budget'[c].status = budget[c].status
                           /\ budget'[c].month = budget[c].month
                           /\ budget'[c].limit = budget[c].limit
                           /\ budget'[c].spent = budget[c].spent + charged
                           /\ budget'[c].reserved = budget[c].reserved - hold
                           /\ budget[c].reserved >= hold
  <2>1. budget[c] \in BudgetRow
    BY DEF TypeOK
  <2>2. c = bud => budget[c].reserved >= hold
    BY ConstantsAssumption DEF hold
  <2>3. budget'[c] = IF c = bud
                     THEN [budget[c] EXCEPT !.reserved = @ - hold,
                                            !.spent = @ + charged]
                     ELSE budget[c]
    BY DEF hold, MovesHold
  <2> HIDE DEF bud
  <2>4. QED
    BY <2>1, <2>2, <2>3 DEF BudgetRow
<1> HIDE DEF bud
<1>4. charged <= hold
  BY DEF hold
<1>5. BudgetWithinLimit'
  <2>1. ASSUME NEW c \in BudgetIds
        PROVE  budget'[c].spent + budget'[c].reserved <= budget'[c].limit
    <3>1. budget[c].spent + budget[c].reserved <= budget[c].limit
      BY DEF BudgetInv, BudgetWithinLimit
    <3>2. QED
      BY <1>1, <1>3, <1>4, <3>1
  <2>2. QED
    BY <2>1 DEF BudgetWithinLimit
<1>6. ASSUME NEW c \in BudgetIds
      PROVE  /\ budget'[c].status = budget[c].status
             /\ budget'[c].month = budget[c].month
             /\ budget[c].reserved = 0 => budget'[c].reserved = 0
  BY <1>1, <1>3
<1>7. OneActiveBudget'
  BY <1>6 DEF BudgetInv, OneActiveBudget
<1>8. QED
  BY <1>5, <1>7 DEF BudgetInv

(* Replacing the month's budget leaves exactly the new one active, and the *)
(* old one with nothing on hold.                                           *)
LEMMA BudgetCreate ==
    ASSUME TypeOK, BudgetInv, NEW limit \in BudgetLimits, NEW start \in Months,
           create_budget(limit, start)
    PROVE  BudgetInv'
<1>1. limit \in Nat /\ start \in Nat
  BY ConstantsAssumption DEF Months
<1>2. PICK new \in BudgetIds, current \in BudgetIds \cup {NoBudget} :
        /\ budget[new].status = "absent"
        /\ newest_active(current, start)
        /\ current # NoBudget =>
              budget[current].reserved = 0 /\ limit >= budget[current].spent
        /\ LET row == [status   |-> "active",
                       limit    |-> limit,
                       spent    |-> IF current = NoBudget
                                    THEN 0 ELSE budget[current].spent,
                       reserved |-> 0,
                       month    |-> start]
           IN  budget' = [b \in BudgetIds |->
                            IF b = new THEN row
                            ELSE IF b = current
                                 THEN [budget[b] EXCEPT !.status = "superseded"]
                                 ELSE budget[b]]
  BY DEF create_budget, replaceable, carried_spend
<1>3. /\ budget'[new].status = "active" /\ budget'[new].month = start
      /\ budget'[new].limit = limit /\ budget'[new].reserved = 0
      /\ budget'[new].spent \in Nat /\ budget'[new].spent <= limit
  BY <1>1, <1>2 DEF TypeOK, BudgetRow
<1>4. ASSUME NEW c \in BudgetIds, c # new, c = current
      PROVE  /\ budget'[c].status = "superseded"
             /\ budget'[c].spent = budget[c].spent
             /\ budget'[c].reserved = budget[c].reserved
             /\ budget'[c].limit = budget[c].limit
             /\ budget[c].reserved = 0
  <2>1. budget[c] \in BudgetRow /\ c # NoBudget
    BY ConstantsAssumption DEF TypeOK
  <2>2. budget'[c] = [budget[c] EXCEPT !.status = "superseded"]
    BY <1>2, <1>4
  <2>3. QED
    BY <1>2, <1>4, <2>1, <2>2 DEF BudgetRow
<1>5. ASSUME NEW c \in BudgetIds, c # new, c # current
      PROVE  budget'[c] = budget[c]
  BY <1>2, <1>5
<1>6. ASSUME NEW c \in BudgetIds, budget[c].status = "active", budget[c].month = start
      PROVE  c = current
  <2>1. newest_active(current, start)
    BY <1>2
  <2>2. QED
    BY <1>6, <2>1 DEF newest_active, BudgetInv, OneActiveBudget
<1>7. BudgetWithinLimit'
  <2>1. ASSUME NEW c \in BudgetIds
        PROVE  budget'[c].spent + budget'[c].reserved <= budget'[c].limit
    <3>1. CASE c = new
      BY <1>1, <1>3, <3>1
    <3>2. CASE c # new /\ c = current
      BY <1>4, <3>2 DEF BudgetInv, BudgetWithinLimit
    <3>3. CASE c # new /\ c # current
      BY <1>5, <3>3 DEF BudgetInv, BudgetWithinLimit
    <3>4. QED
      BY <3>1, <3>2, <3>3
  <2>2. QED
    BY <2>1 DEF BudgetWithinLimit
<1>8. ASSUME NEW c \in BudgetIds, budget'[c].status # "active"
      PROVE  budget'[c].reserved = 0
  <2>1. CASE c = new
    BY <1>3, <2>1
  <2>2. CASE c # new /\ c = current
    BY <1>4, <2>2
  <2>3. CASE c # new /\ c # current
    BY <1>5, <1>8, <2>3 DEF BudgetInv, OneActiveBudget
  <2>4. QED
    BY <2>1, <2>2, <2>3
<1>9. ASSUME NEW c \in BudgetIds, c # new, budget'[c].status = "active"
      PROVE  /\ budget[c].status = "active" /\ budget[c].month = budget'[c].month
             /\ budget[c].month # start
  <2>1. c # current
    BY <1>4, <1>9
  <2>2. budget'[c] = budget[c]
    BY <1>5, <1>9, <2>1
  <2>3. QED
    BY <1>6, <1>9, <2>1, <2>2
<1>10. ASSUME NEW b \in BudgetIds, NEW c \in BudgetIds,
              budget'[b].status = "active", budget'[c].status = "active",
              budget'[b].month = budget'[c].month
       PROVE  b = c
  BY <1>3, <1>9, <1>10 DEF BudgetInv, OneActiveBudget
<1>11. OneActiveBudget'
  BY <1>8, <1>10 DEF OneActiveBudget
<1>12. QED
  BY <1>7, <1>11 DEF BudgetInv

LEMMA BudgetStep == TypeOK /\ BudgetInv /\ [Next]_vars => BudgetInv'
<1> SUFFICES ASSUME TypeOK, BudgetInv, [Next]_vars PROVE BudgetInv'
  OBVIOUS
<1>1. CASE \E r \in Requests, v \in DOMAIN PriceList : reserve_model_request(r, v)
  BY <1>1, BudgetReserve
<1>2. CASE \E t \in open : \/ \E response \in Responses, up \in UpstreamCosts :
                                 settle_model_request(t, response, up)
                           \/ release_model_request(t)
  <2>1. PICK t \in open, charged \in Nat, row \in RequestRow :
          Commits(t, charged, row) /\ MovesHold(t, charged)
    BY <1>2, SettleCommits, ReleaseCommits DEF MovesHold
  <2>2. /\ charged <= request[t.req].hold
        /\ request[t.req].budget # NoBudget =>
              budget[request[t.req].budget].reserved >= request[t.req].hold
    BY <2>1 DEF Commits
  <2>3. QED
    BY <2>1, <2>2, BudgetFinalize
<1>3. CASE \E limit \in BudgetLimits, start \in Months : create_budget(limit, start)
  BY <1>3, BudgetCreate
<1>4. CASE UNCHANGED budget
  BY <1>4 DEF BudgetInv, BudgetWithinLimit, OneActiveBudget
<1>5. QED
  BY <1>1, <1>2, <1>3, <1>4
  DEF Next, Finalizers, vars, Open, mark_pending_reconciliation, Rollback,
      recover_stale_model_reservations, ChangeAdmission, NextMonth, seed_prices

(* Budgets are hard stops, for every number of budgets, requests and       *)
(* concurrent sessions, however late a settlement comes.                   *)
THEOREM BudgetIsHardStop == Spec => []BudgetWithinLimit
<1>1. BudgetInv => BudgetWithinLimit
  BY DEF BudgetInv
<1>2. QED
  BY <1>1, TypeInit, TypeStep, BudgetInit, BudgetStep, PTL DEF Spec

(* A month has at most one active budget, and only an active one holds.    *)
THEOREM OneActiveBudgetHolds == Spec => []OneActiveBudget
<1>1. BudgetInv => OneActiveBudget
  BY DEF BudgetInv
<1>2. QED
  BY <1>1, TypeInit, TypeStep, BudgetInit, BudgetStep, PTL DEF Spec

-----------------------------------------------------------------------------
(* Finalization                                                            *)

(* For a request no two finalizing transactions were ever open on at once: *)
(* at most one is open now, it is open on a request that still has its     *)
(* hold, and the journal says so.                                          *)
SerialInv ==
    \A r \in Requests \ overlapped :
        /\ \A t, u \in open : t.req = r /\ u.req = r => t = u
        /\ \A t \in open : t.req = r => request[r].status \in OpenStatuses
        /\ ~(<<r, "settle">> \in posted /\ <<r, "release">> \in posted)
        /\ request[r].status \in FinalStatuses <=> Finalized(r)

LEMMA SerialInit == Init => SerialInv
  BY DEF Init, SerialInv, NoRequestRow, FinalStatuses, Finalized

(* A step that finalizes nothing keeps it, if it gives an open status only *)
(* to requests that were not final.                                        *)
LEMMA SerialKeeps ==
    ASSUME SerialInv, open' \subseteq open, overlapped' = overlapped,
           \A r \in Requests :
              /\ <<r, "settle">> \in posted' <=> <<r, "settle">> \in posted
              /\ <<r, "release">> \in posted' <=> <<r, "release">> \in posted,
           \A r \in Requests \ overlapped :
              \/ request'[r].status = request[r].status
              \/ /\ request'[r].status \in OpenStatuses
                 /\ request[r].status \notin FinalStatuses
    PROVE  SerialInv'
<1>1. ASSUME NEW r \in Requests \ overlapped'
      PROVE  /\ \A t, u \in open' : t.req = r /\ u.req = r => t = u
             /\ \A t \in open' : t.req = r => request'[r].status \in OpenStatuses
             /\ ~(<<r, "settle">> \in posted' /\ <<r, "release">> \in posted')
             /\ request'[r].status \in FinalStatuses <=> Finalized(r)'
  <2>1. \A o \in OpenStatuses : o \notin FinalStatuses
    BY DEF OpenStatuses, FinalStatuses
  <2>2. Finalized(r)' <=> Finalized(r)
    BY DEF Finalized
  <2>3. QED
    BY <2>1, <2>2 DEF SerialInv
<1>2. QED
  BY <1>1 DEF SerialInv

LEMMA SerialReserve ==
    ASSUME TypeOK, SerialInv, NEW q \in Requests,
           NEW v \in DOMAIN PriceList, reserve_model_request(q, v)
    PROVE  SerialInv'
<1>1. /\ request[q].status = "absent"
      /\ posted' = posted \cup {<<q, "reserve">>}
      /\ open' = open /\ overlapped' = overlapped
  BY DEF reserve_model_request
<1>2. PICK row : row.status = "reserved" /\ request' = [request EXCEPT ![q] = row]
  <2>1. PICK b :
          request' = [request EXCEPT ![q] =
            [status        |-> "reserved",
             hold          |-> reserve_amount(PriceList[v], Payloads[q]),
             budget        |-> b,
             price         |-> v,
             charged       |-> 0,
             input_tokens  |-> estimate_tokens(Payloads[q].chars),
             output_tokens |-> 0]]
    BY DEF reserve_model_request
  <2>2. QED
    BY <2>1
<1>3. ASSUME NEW r \in Requests
      PROVE  /\ r # q => request'[r] = request[r]
             /\ r = q => request'[r].status = "reserved"
  BY <1>2 DEF TypeOK
<1>4. \A r \in Requests \ overlapped :
         \/ request'[r].status = request[r].status
         \/ /\ request'[r].status \in OpenStatuses
            /\ request[r].status \notin FinalStatuses
  BY <1>1, <1>3 DEF OpenStatuses, FinalStatuses
<1>5. QED
  BY <1>1, <1>4, SerialKeeps

LEMMA SerialOpen ==
    ASSUME TypeOK, SerialInv, NEW s \in Sessions, NEW q \in Requests, NEW op,
           NEW from, Open(s, q, op, from)
    PROVE  SerialInv'
<1> DEFINE new == [session |-> s, op |-> op, req |-> q, from |-> from]
<1>1. /\ request[q].status \in OpenStatuses
      /\ open' = open \cup {new}
      /\ overlapped' = overlapped \cup {p \in {q} : \E t \in open : t.req = p}
      /\ request' = request /\ posted' = posted
  BY DEF Open
<1>2. new.req = q
  OBVIOUS
<1> HIDE DEF new
<1>3. overlapped \subseteq overlapped'
      /\ (q \notin overlapped' => \A t \in open : t.req # q)
  BY <1>1
<1>4. ASSUME NEW r \in Requests \ overlapped'
      PROVE  /\ \A t, u \in open' : t.req = r /\ u.req = r => t = u
             /\ \A t \in open' : t.req = r => request'[r].status \in OpenStatuses
             /\ ~(<<r, "settle">> \in posted' /\ <<r, "release">> \in posted')
             /\ request'[r].status \in FinalStatuses <=> Finalized(r)'
  <2>1. /\ \A t, u \in open : t.req = r /\ u.req = r => t = u
        /\ \A t \in open : t.req = r => request[r].status \in OpenStatuses
        /\ ~(<<r, "settle">> \in posted /\ <<r, "release">> \in posted)
        /\ request[r].status \in FinalStatuses <=> Finalized(r)
    BY <1>3, <1>4 DEF SerialInv
  <2>2. Finalized(r)' <=> Finalized(r)
    BY <1>1 DEF Finalized
  <2>3. CASE r = q
    BY <1>1, <1>2, <1>3, <1>4, <2>1, <2>2, <2>3
  <2>4. CASE r # q
    BY <1>1, <1>2, <2>1, <2>2, <2>4
  <2>5. QED
    BY <2>3, <2>4
<1>5. QED
  BY <1>4 DEF SerialInv

LEMMA SerialCommit ==
    ASSUME TypeOK, SerialInv, NEW t \in open, NEW charged, NEW row,
           Commits(t, charged, row)
    PROVE  SerialInv'
<1>1. /\ t.op \in {"settle", "release"} /\ t.req \in Requests
      /\ row.status \in FinalStatuses
      /\ posted' = posted \cup {<<t.req, t.op>>}
      /\ request' = [request EXCEPT ![t.req] = row]
      /\ open' = open \ {t} /\ overlapped' = overlapped
  BY DEF Commits, TypeOK, Transaction
<1>2. ASSUME NEW r \in Requests \ overlapped, r # t.req
      PROVE  /\ request'[r] = request[r]
             /\ \A k : <<r, k>> \in posted' <=> <<r, k>> \in posted
  BY <1>1, <1>2 DEF TypeOK
<1>3. request'[t.req].status \in FinalStatuses
  BY <1>1 DEF TypeOK
<1>4. ASSUME t.req \notin overlapped
      PROVE  /\ \A u \in open' : u.req # t.req
             /\ <<t.req, "settle">> \notin posted
             /\ <<t.req, "release">> \notin posted
  <2>1. request[t.req].status \notin FinalStatuses
    BY <1>1, <1>4 DEF SerialInv, OpenStatuses, FinalStatuses
  <2>2. QED
    BY <1>1, <1>4, <2>1 DEF SerialInv, Finalized
<1>5. ASSUME NEW r \in Requests \ overlapped'
      PROVE  /\ \A u, v \in open' : u.req = r /\ v.req = r => u = v
             /\ \A u \in open' : u.req = r => request'[r].status \in OpenStatuses
             /\ ~(<<r, "settle">> \in posted' /\ <<r, "release">> \in posted')
             /\ request'[r].status \in FinalStatuses <=> Finalized(r)'
  <2>1. CASE r = t.req
    BY <1>1, <1>3, <1>4, <2>1 DEF Finalized
  <2>2. CASE r # t.req
    BY <1>1, <1>2, <2>2 DEF SerialInv, Finalized
  <2>3. QED
    BY <2>1, <2>2
<1>6. QED
  BY <1>5 DEF SerialInv

LEMMA SerialMark ==
    ASSUME TypeOK, SerialInv, NEW t \in open, mark_pending_reconciliation(t)
    PROVE  SerialInv'
<1>1. /\ t.req \in Requests
      /\ request' = [request EXCEPT ![t.req].status = "pending_reconciliation"]
      /\ open' = open \ {t} /\ overlapped' = overlapped /\ posted' = posted
  BY DEF mark_pending_reconciliation, TypeOK, Transaction
<1>2. ASSUME NEW r \in Requests
      PROVE  /\ r # t.req => request'[r] = request[r]
             /\ r = t.req => request'[r].status = "pending_reconciliation"
  BY <1>1 DEF TypeOK, RequestRow
<1>3. t.req \notin overlapped => request[t.req].status \in OpenStatuses
  BY <1>1 DEF SerialInv
<1>4. \A r \in Requests \ overlapped :
         \/ request'[r].status = request[r].status
         \/ /\ request'[r].status \in OpenStatuses
            /\ request[r].status \notin FinalStatuses
  BY <1>2, <1>3 DEF OpenStatuses, FinalStatuses
<1>5. open' \subseteq open /\ overlapped' = overlapped /\ posted' = posted
  BY <1>1
<1>6. QED
  BY <1>4, <1>5, SerialKeeps

LEMMA SerialSweep ==
    ASSUME TypeOK, SerialInv, NEW stale \in SUBSET Requests,
           recover_stale_model_reservations(stale)
    PROVE  SerialInv'
<1>1. /\ \A r \in stale : request[r].status = "reserved"
      /\ open' = open /\ overlapped' = overlapped /\ posted' = posted
  BY DEF recover_stale_model_reservations
<1>2. ASSUME NEW r \in Requests
      PROVE  /\ r \notin stale => request'[r] = request[r]
             /\ r \in stale => request'[r].status = "pending_reconciliation"
  <2>1. request[r] \in RequestRow
    BY DEF TypeOK
  <2>2. request'[r] = IF r \in stale
                      THEN [request[r] EXCEPT !.status = "pending_reconciliation"]
                      ELSE request[r]
    BY DEF recover_stale_model_reservations
  <2>3. QED
    BY <2>1, <2>2 DEF RequestRow
<1>3. \A r \in Requests \ overlapped :
         \/ request'[r].status = request[r].status
         \/ /\ request'[r].status \in OpenStatuses
            /\ request[r].status \notin FinalStatuses
  BY <1>1, <1>2 DEF OpenStatuses, FinalStatuses
<1>4. QED
  BY <1>1, <1>3, SerialKeeps

LEMMA SerialStep == TypeOK /\ SerialInv /\ [Next]_vars => SerialInv'
<1> SUFFICES ASSUME TypeOK, SerialInv, [Next]_vars PROVE SerialInv'
  OBVIOUS
<1>1. CASE \E r \in Requests, v \in DOMAIN PriceList : reserve_model_request(r, v)
  BY <1>1, SerialReserve
<1>2. CASE \E s \in Sessions, r \in Requests, op \in {"settle", "release", "mark"},
              from \in OpenStatuses : Open(s, r, op, from)
  BY <1>2, SerialOpen
<1>3. CASE \E t \in open : \/ \E response \in Responses, up \in UpstreamCosts :
                                 settle_model_request(t, response, up)
                           \/ release_model_request(t)
  <2>1. PICK t \in open, charged \in Nat, row \in RequestRow : Commits(t, charged, row)
    BY <1>3, SettleCommits, ReleaseCommits
  <2>2. QED
    BY <2>1, SerialCommit
<1>4. CASE \E t \in open : mark_pending_reconciliation(t)
  BY <1>4, SerialMark
<1>5. CASE \E t \in open : Rollback(t)
  BY <1>5 DEF Rollback, SerialInv, Finalized
<1>6. CASE \E stale \in SUBSET Requests : recover_stale_model_reservations(stale)
  BY <1>6, SerialSweep
<1>7. CASE UNCHANGED <<request, posted, open, overlapped>>
  BY <1>7 DEF SerialInv, Finalized
<1>8. QED
  BY <1>1, <1>2, <1>3, <1>4, <1>5, <1>6, <1>7
  DEF Next, Finalizers, vars, create_budget, ChangeAdmission, NextMonth, seed_prices

(* The status check of settle, release and mark suffices for every request *)
(* whose finalizing transactions do not overlap, however many requests and *)
(* sessions there are and whatever else runs in between.                   *)
THEOREM SerialFinalizationHolds == Spec => []SerialFinalization
<1>1. SerialInv => SerialFinalization
  BY DEF SerialInv, SerialFinalization
<1>2. QED
  BY <1>1, TypeInit, TypeStep, SerialInit, SerialStep, PTL DEF Spec

-----------------------------------------------------------------------------
(* The pre-authorization covers every usage within the admitted bounds     *)

(* The hold is the one of the price version the row names, which nothing   *)
(* changes afterwards.                                                     *)
HoldInv ==
    /\ \A t \in open : request[t.req].status # "absent"
    /\ \A r \in Requests : request[r].status # "absent" =>
          request[r].hold = reserve_amount(PriceList[request[r].price], Payloads[r])

CoverInv == HoldInv /\ UnderReservedOnlyByOverrun

LEMMA CoverInit == Init => CoverInv
  BY DEF Init, CoverInv, HoldInv, UnderReservedOnlyByOverrun, NoRequestRow

(* A step that only gives some requests another, open status keeps it.     *)
LEMMA CoverKeeps ==
    ASSUME CoverInv, open' \subseteq open,
           \A r \in Requests :
              \/ request'[r] = request[r]
              \/ /\ request[r].status # "absent"
                 /\ request'[r].status \in OpenStatuses
                 /\ request'[r].hold = request[r].hold
                 /\ request'[r].price = request[r].price,
           \A t \in open : t.req \in Requests
    PROVE  CoverInv'
<1>1. HoldInv'
  BY DEF CoverInv, HoldInv, OpenStatuses
<1>2. UnderReservedOnlyByOverrun'
  BY DEF CoverInv, UnderReservedOnlyByOverrun, OpenStatuses
<1>3. QED
  BY <1>1, <1>2 DEF CoverInv

(* A step that writes one row keeps it, if the new row has the hold of its *)
(* price and is under-reserved only when its cost passes that hold.        *)
LEMMA CoverWrite ==
    ASSUME TypeOK, CoverInv, NEW q \in Requests, NEW row,
           request' = [request EXCEPT ![q] = row], open' \subseteq open,
           row.status # "absent", row.price \in DOMAIN PriceList,
           row.input_tokens \in Nat, row.output_tokens \in Nat,
           row.hold = reserve_amount(PriceList[row.price], Payloads[q]),
           row.status = "under_reserved" =>
              row.hold < usage_cost(PriceList[row.price], row.input_tokens,
                                    row.output_tokens)
    PROVE  CoverInv'
<1>1. ASSUME NEW r \in Requests
      PROVE  /\ r = q => request'[r] = row
             /\ r # q => request'[r] = request[r]
  BY DEF TypeOK
<1>2. \A t \in open : t.req \in Requests
  BY DEF TypeOK, Transaction
<1>3. HoldInv'
  BY <1>1, <1>2 DEF CoverInv, HoldInv
<1>4. Payloads[q] \in Payload /\ PriceList[row.price] \in Price
  BY ConstantsAssumption, PriceListAssumption
<1>5. row.status = "under_reserved" =>
         \/ row.input_tokens > input_token_reservation_upper_bound(Payloads[q])
         \/ row.output_tokens > Payloads[q].max_output
  <2>1. SUFFICES ASSUME row.input_tokens <= input_token_reservation_upper_bound(Payloads[q]),
                        row.output_tokens <= Payloads[q].max_output
                 PROVE  row.status # "under_reserved"
    <3>1. /\ input_token_reservation_upper_bound(Payloads[q]) \in Nat
          /\ Payloads[q].max_output \in Nat
      BY <1>4, BoundNat DEF Payload
    <3>2. QED
      BY <3>1, <2>1
  <2>2. usage_cost(PriceList[row.price], row.input_tokens, row.output_tokens)
          <= reserve_amount(PriceList[row.price], Payloads[q])
    BY <1>4, <2>1, HoldCoversUsage
  <2>3. /\ usage_cost(PriceList[row.price], row.input_tokens, row.output_tokens) \in Nat
        /\ reserve_amount(PriceList[row.price], Payloads[q]) \in Nat
    BY <1>4, UsageCostNat, ReserveAmountPositive
  <2>4. QED
    BY <2>2, <2>3
<1>6. UnderReservedOnlyByOverrun'
  BY <1>1, <1>5 DEF CoverInv, UnderReservedOnlyByOverrun
<1>7. QED
  BY <1>3, <1>6 DEF CoverInv

LEMMA CoverReserve ==
    ASSUME TypeOK, CoverInv, NEW q \in Requests,
           NEW v \in DOMAIN PriceList, reserve_model_request(q, v)
    PROVE  CoverInv'
<1> DEFINE row(b) == [status        |-> "reserved",
                      hold          |-> reserve_amount(PriceList[v], Payloads[q]),
                      budget        |-> b,
                      price         |-> v,
                      charged       |-> 0,
                      input_tokens  |-> estimate_tokens(Payloads[q].chars),
                      output_tokens |-> 0]
<1>1. PICK b : request' = [request EXCEPT ![q] = row(b)]
  BY DEF reserve_model_request
<1>2. open' = open
  BY DEF reserve_model_request
<1>3. v \in DOMAIN PriceList /\ estimate_tokens(Payloads[q].chars) \in Nat
  BY ReserveFacts
<1>4. /\ row(b).status = "reserved" /\ row(b).price = v
      /\ row(b).hold = reserve_amount(PriceList[v], Payloads[q])
      /\ row(b).input_tokens \in Nat /\ row(b).output_tokens \in Nat
  BY <1>3
<1> HIDE DEF row
<1>5. QED
  BY <1>1, <1>2, <1>3, <1>4, CoverWrite

LEMMA CoverCommit ==
    ASSUME TypeOK, CoverInv, NEW t \in open, NEW charged \in Nat,
           NEW row \in RequestRow, Commits(t, charged, row),
           row.status = "under_reserved" =>
              request[t.req].hold
                < usage_cost(PriceList[row.price], row.input_tokens,
                             row.output_tokens)
    PROVE  CoverInv'
<1>1. /\ request' = [request EXCEPT ![t.req] = row] /\ open' \subseteq open
      /\ row.hold = request[t.req].hold /\ row.price = request[t.req].price
      /\ row.status \in FinalStatuses
  BY DEF Commits
<1>2. /\ t.req \in Requests /\ request[t.req].status # "absent"
      /\ request[t.req].hold
           = reserve_amount(PriceList[request[t.req].price], Payloads[t.req])
  BY DEF TypeOK, Transaction, CoverInv, HoldInv
<1>3. /\ row.price \in DOMAIN PriceList /\ row.input_tokens \in Nat
      /\ row.output_tokens \in Nat
  BY DEF RequestRow
<1>4. row.status # "absent"
  BY <1>1 DEF FinalStatuses
<1>5. /\ row.hold = reserve_amount(PriceList[row.price], Payloads[t.req])
      /\ row.status = "under_reserved" =>
            row.hold < usage_cost(PriceList[row.price], row.input_tokens,
                                  row.output_tokens)
  BY <1>1, <1>2
<1>6. request' = [request EXCEPT ![t.req] = row] /\ open' \subseteq open
  BY <1>1
<1>7. t.req \in Requests
  BY <1>2
<1>8. QED
  BY <1>3, <1>4, <1>5, <1>6, <1>7, CoverWrite

LEMMA CoverStep == TypeOK /\ CoverInv /\ [Next]_vars => CoverInv'
<1> SUFFICES ASSUME TypeOK, CoverInv, [Next]_vars PROVE CoverInv'
  OBVIOUS
<1>a. request \in [Requests -> RequestRow] /\ \A t \in open : t.req \in Requests
  BY DEF TypeOK, Transaction
<1>1. CASE \E r \in Requests, v \in DOMAIN PriceList : reserve_model_request(r, v)
  BY <1>1, CoverReserve
<1>2. CASE \E s \in Sessions, r \in Requests, op \in {"settle", "release", "mark"},
              from \in OpenStatuses : Open(s, r, op, from)
  <2>1. PICK s \in Sessions, r \in Requests, op \in {"settle", "release", "mark"},
             from \in OpenStatuses : Open(s, r, op, from)
    BY <1>2
  <2>2. /\ request' = request /\ request[r].status \in OpenStatuses
        /\ \A t \in open' : t \in open \/ t.req = r
    BY <2>1 DEF Open
  <2>3. QED
    BY <2>2 DEF CoverInv, HoldInv, UnderReservedOnlyByOverrun, OpenStatuses
<1>3. CASE \E t \in open : \/ \E response \in Responses, up \in UpstreamCosts :
                                 settle_model_request(t, response, up)
                           \/ release_model_request(t)
  <2>1. PICK t \in open, charged \in Nat, row \in RequestRow :
          /\ Commits(t, charged, row)
          /\ row.status = "under_reserved" =>
                request[t.req].hold
                  < usage_cost(PriceList[row.price], row.input_tokens,
                               row.output_tokens)
    BY <1>3, SettleCommits, ReleaseCommits
  <2>2. QED
    BY <2>1, CoverCommit
<1>4. CASE \E t \in open : mark_pending_reconciliation(t)
  <2>1. PICK t \in open : mark_pending_reconciliation(t)
    BY <1>4
  <2>2. /\ request' = [request EXCEPT ![t.req].status = "pending_reconciliation"]
        /\ open' \subseteq open
    BY <2>1 DEF mark_pending_reconciliation
  <2>3. ASSUME NEW r \in Requests
        PROVE  \/ request'[r] = request[r]
               \/ /\ request[r].status # "absent"
                  /\ request'[r].status \in OpenStatuses
                  /\ request'[r].hold = request[r].hold
                  /\ request'[r].price = request[r].price
    <3>1. request'[r] = IF r = t.req
                        THEN [request[r] EXCEPT !.status = "pending_reconciliation"]
                        ELSE request[r]
      BY <1>a, <2>2
    <3>2. r = t.req => request[r].status # "absent"
      BY DEF CoverInv, HoldInv
    <3>3. QED
      BY <1>a, <3>1, <3>2 DEF RequestRow, OpenStatuses
  <2>4. open' \subseteq open
    BY <2>2
  <2>5. QED
    BY <1>a, <2>3, <2>4, CoverKeeps
<1>5. CASE \E stale \in SUBSET Requests : recover_stale_model_reservations(stale)
  <2>1. PICK stale \in SUBSET Requests : recover_stale_model_reservations(stale)
    BY <1>5
  <2>2. /\ \A r \in stale : request[r].status = "reserved"
        /\ open' = open
    BY <2>1 DEF recover_stale_model_reservations
  <2>3. ASSUME NEW r \in Requests
        PROVE  \/ request'[r] = request[r]
               \/ /\ request[r].status # "absent"
                  /\ request'[r].status \in OpenStatuses
                  /\ request'[r].hold = request[r].hold
                  /\ request'[r].price = request[r].price
    <3>1. request'[r] = IF r \in stale
                        THEN [request[r] EXCEPT !.status = "pending_reconciliation"]
                        ELSE request[r]
      BY <2>1 DEF recover_stale_model_reservations
    <3>2. QED
      BY <1>a, <2>2, <3>1 DEF RequestRow, OpenStatuses
  <2>4. QED
    BY <1>a, <2>2, <2>3, CoverKeeps
<1>6. CASE open' \subseteq open /\ UNCHANGED request
  BY <1>a, <1>6, CoverKeeps
<1>7. QED
  BY <1>1, <1>2, <1>3, <1>4, <1>5, <1>6
  DEF Next, Finalizers, vars, Rollback, create_budget, ChangeAdmission, NextMonth,
      seed_prices

(* The pre-authorization is enough for every payload and price: only usage *)
(* beyond the admitted bounds leaves the platform with a loss.             *)
THEOREM PreauthorizationCovers == Spec => []UnderReservedOnlyByOverrun
<1>1. Spec => []CoverInv
  BY TypeInit, TypeStep, CoverInit, CoverStep, PTL DEF Spec
<1>2. QED
  BY <1>1, PTL DEF CoverInv

-----------------------------------------------------------------------------
(* The wallet and the budgets hold exactly the open requests               *)

(* What a reservation writes.                                              *)
LEMMA ReserveWrites ==
    ASSUME TypeOK, NEW q \in Requests, NEW v \in DOMAIN PriceList,
           reserve_model_request(q, v)
    PROVE  \E b \in BudgetIds \cup {NoBudget}, hold \in Nat \ {0} :
              /\ active_budget(b)
              /\ request[q].status = "absent"
              /\ request'[q].status = "reserved"
              /\ request'[q].hold = hold
              /\ request'[q].budget = b
              /\ request'[q].charged = 0
              /\ \A r \in Requests : r # q => request'[r] = request[r]
              /\ wallet'.balance = wallet.balance - hold
              /\ wallet'.reserved = wallet.reserved + hold
              /\ budget' = [c \in BudgetIds |->
                              IF c = b
                              THEN [budget[c] EXCEPT !.reserved = @ + hold]
                              ELSE budget[c]]
              /\ posted' = posted \cup {<<q, "reserve">>}
              /\ open' = open /\ overlapped' = overlapped
<1> DEFINE hold == reserve_amount(PriceList[v], Payloads[q])
<1>1. hold \in Nat \ {0}
  BY ConstantsAssumption, PriceListAssumption, ReserveAmountPositive
<1>2. PICK b \in BudgetIds \cup {NoBudget} :
        /\ active_budget(b)
        /\ budget' = [c \in BudgetIds |->
                        IF c = b
                        THEN [budget[c] EXCEPT !.reserved = @ + hold]
                        ELSE budget[c]]
        /\ request' = [request EXCEPT ![q] =
             [status        |-> "reserved",
              hold          |-> hold,
              budget        |-> b,
              price         |-> v,
              charged       |-> 0,
              input_tokens  |-> estimate_tokens(Payloads[q].chars),
              output_tokens |-> 0]]
  BY DEF reserve_model_request
<1>3. /\ request[q].status = "absent"
      /\ wallet'.balance = wallet.balance - hold
      /\ wallet'.reserved = wallet.reserved + hold
      /\ posted' = posted \cup {<<q, "reserve">>}
      /\ open' = open /\ overlapped' = overlapped
  BY DEF reserve_model_request
<1> HIDE DEF hold
<1>4. /\ request'[q].status = "reserved" /\ request'[q].hold = hold
      /\ request'[q].budget = b /\ request'[q].charged = 0
      /\ \A r \in Requests : r # q => request'[r] = request[r]
  BY <1>2 DEF TypeOK
<1>5. QED
  BY <1>1, <1>2, <1>3, <1>4

OpenOn(b) == {r \in OpenRequests : request[r].budget = b}

(* The wallet's and each budget's reserved amount are sums of holds.       *)
HoldsMatch ==
    /\ wallet.reserved = SumFunctionOnSet(HoldOf, OpenRequests)
    /\ \A b \in BudgetIds : budget[b].reserved = SumFunctionOnSet(HoldOf, OpenOn(b))

LEMMA HoldsAre == HoldsAccountedFor <=> (overlapped = {} => HoldsMatch)
  BY DEF HoldsAccountedFor, HoldsMatch, OpenOn

LEMMA OpenFacts ==
    ASSUME TypeOK
    PROVE  /\ OpenRequests \subseteq Requests /\ IsFiniteSet(OpenRequests)
           /\ \A b : OpenOn(b) \subseteq OpenRequests /\ IsFiniteSet(OpenOn(b))
           /\ \A r \in Requests : HoldOf[r] = request[r].hold /\ HoldOf[r] \in Int
<1>1. OpenRequests \subseteq Requests /\ \A b : OpenOn(b) \subseteq OpenRequests
  BY DEF OpenRequests, OpenOn
<1>2. IsFiniteSet(Requests)
  BY ConstantsAssumption
<1>3. \A r \in Requests : HoldOf[r] = request[r].hold /\ HoldOf[r] \in Int
  BY DEF HoldOf, TypeOK, RequestRow
<1>4. QED
  BY <1>1, <1>2, <1>3, FS_Subset

(* A step that keeps the set of open requests, their holds and budgets.    *)
LEMMA HoldsKept ==
    ASSUME TypeOK, TypeOK', HoldsMatch, wallet'.reserved = wallet.reserved,
           \A b \in BudgetIds : budget'[b].reserved = budget[b].reserved,
           \A r \in Requests :
              /\ request'[r].status \in OpenStatuses <=> request[r].status \in OpenStatuses
              /\ request[r].status \in OpenStatuses =>
                    /\ request'[r].hold = request[r].hold
                    /\ request'[r].budget = request[r].budget
    PROVE  HoldsMatch'
<1>1. OpenRequests' = OpenRequests
  BY DEF OpenRequests
<1>2. \A b \in BudgetIds : OpenOn(b)' = OpenOn(b)
  BY DEF OpenOn, OpenRequests
<1>3. \A r \in OpenRequests : HoldOf'[r] = HoldOf[r] /\ HoldOf[r] \in Int
  BY OpenFacts DEF HoldOf, OpenRequests
<1>4. SumFunctionOnSet(HoldOf', OpenRequests) = SumFunctionOnSet(HoldOf, OpenRequests)
  BY <1>3, OpenFacts, SumSame
<1>5. ASSUME NEW b \in BudgetIds
      PROVE  SumFunctionOnSet(HoldOf', OpenOn(b)) = SumFunctionOnSet(HoldOf, OpenOn(b))
  <2>1. IsFiniteSet(OpenOn(b)) /\ \A r \in OpenOn(b) : HoldOf'[r] = HoldOf[r] /\ HoldOf[r] \in Int
    BY <1>3, OpenFacts
  <2>2. QED
    BY <2>1, SumSame
<1>6. QED
  BY <1>1, <1>2, <1>4, <1>5 DEF HoldsMatch

LEMMA HoldsReserve ==
    ASSUME TypeOK, TypeOK', HoldsMatch, NEW q \in Requests, NEW v \in DOMAIN PriceList,
           reserve_model_request(q, v)
    PROVE  HoldsMatch'
<1>1. PICK b \in BudgetIds \cup {NoBudget}, hold \in Nat \ {0} :
        /\ request[q].status = "absent"
        /\ request'[q].status = "reserved"
        /\ request'[q].hold = hold
        /\ request'[q].budget = b
        /\ \A r \in Requests : r # q => request'[r] = request[r]
        /\ wallet'.reserved = wallet.reserved + hold
        /\ budget' = [c \in BudgetIds |->
                        IF c = b
                        THEN [budget[c] EXCEPT !.reserved = @ + hold]
                        ELSE budget[c]]
  BY ReserveWrites
<1>2. OpenRequests' = OpenRequests \cup {q} /\ q \notin OpenRequests
  BY <1>1 DEF OpenRequests, OpenStatuses
<1>3. /\ \A r \in OpenRequests : HoldOf'[r] = HoldOf[r] /\ HoldOf[r] \in Int
      /\ HoldOf'[q] = hold
  BY <1>1, <1>2, OpenFacts DEF HoldOf, OpenRequests
<1>4. ASSUME NEW S \in SUBSET OpenRequests
      PROVE  /\ SumFunctionOnSet(HoldOf', S) = SumFunctionOnSet(HoldOf, S)
             /\ SumFunctionOnSet(HoldOf', S \cup {q}) = SumFunctionOnSet(HoldOf, S) + hold
  <2>1. IsFiniteSet(S) /\ q \notin S /\ hold \in Int
    BY <1>2, OpenFacts, FS_Subset
  <2>2. \A r \in S : HoldOf'[r] = HoldOf[r] /\ HoldOf[r] \in Int /\ HoldOf'[r] \in Int
    BY <1>3
  <2>3. SumFunctionOnSet(HoldOf', S) = SumFunctionOnSet(HoldOf, S)
    BY <2>1, <2>2, SumSame
  <2>4. SumFunctionOnSet(HoldOf', S \cup {q}) = SumFunctionOnSet(HoldOf', S) + HoldOf'[q]
    BY <1>3, <2>1, <2>2, SumWith
  <2>5. QED
    BY <1>3, <2>3, <2>4
<1>5. wallet'.reserved = SumFunctionOnSet(HoldOf', OpenRequests')
  BY <1>1, <1>2, <1>4 DEF HoldsMatch
<1>6. ASSUME NEW c \in BudgetIds
      PROVE  budget'[c].reserved = SumFunctionOnSet(HoldOf', OpenOn(c)')
  <2>1. budget[c].reserved = SumFunctionOnSet(HoldOf, OpenOn(c)) /\ budget[c] \in BudgetRow
    BY DEF HoldsMatch, TypeOK
  <2>2. OpenOn(c) \in SUBSET OpenRequests
    BY OpenFacts
  <2>3. CASE c = b
    <3>1. OpenOn(c)' = OpenOn(c) \cup {q}
      BY <1>1, <1>2, <2>3 DEF OpenOn, OpenRequests
    <3>2. budget'[c].reserved = budget[c].reserved + hold
      BY <1>1, <2>1, <2>3 DEF BudgetRow
    <3>3. QED
      BY <1>4, <2>1, <2>2, <3>1, <3>2
  <2>4. CASE c # b
    <3>1. OpenOn(c)' = OpenOn(c)
      BY <1>1, <1>2, <2>4 DEF OpenOn, OpenRequests
    <3>2. budget'[c] = budget[c]
      BY <1>1, <2>4
    <3>3. QED
      BY <1>4, <2>1, <2>2, <3>1, <3>2
  <2>5. QED
    BY <2>3, <2>4
<1>7. QED
  BY <1>5, <1>6 DEF HoldsMatch

LEMMA HoldsCommit ==
    ASSUME TypeOK, TypeOK', SerialInv, overlapped = {}, HoldsMatch, NEW t \in open,
           NEW charged \in Nat, NEW row \in RequestRow, Commits(t, charged, row),
           MovesHold(t, charged)
    PROVE  HoldsMatch'
<1> DEFINE q == t.req
           hold == request[q].hold
<1>1. /\ q \in Requests /\ request[q].status \in OpenStatuses
      /\ hold \in Nat
  BY DEF TypeOK, Transaction, RequestRow, SerialInv
<1>2. /\ request' = [request EXCEPT ![q] = row]
      /\ row.status \in FinalStatuses
      /\ wallet'.reserved = wallet.reserved - hold
  BY DEF Commits
<1>3. budget' = [b \in BudgetIds |->
                   IF b = request[q].budget
                   THEN [budget[b] EXCEPT !.reserved = @ - hold, !.spent = @ + charged]
                   ELSE budget[b]]
  BY DEF MovesHold
<1>4. hold = request[q].hold
  OBVIOUS
<1> HIDE DEF q, hold
<1>5. /\ request'[q] = row
      /\ \A r \in Requests : r # q => request'[r] = request[r]
  BY <1>1, <1>2 DEF TypeOK
<1>6. row.status \notin OpenStatuses
  BY <1>2 DEF OpenStatuses, FinalStatuses
<1>7. OpenRequests' = OpenRequests \ {q} /\ q \in OpenRequests
  BY <1>1, <1>5, <1>6 DEF OpenRequests
<1>8. /\ \A r \in OpenRequests \ {q} : HoldOf'[r] = HoldOf[r]
      /\ \A r \in OpenRequests : HoldOf[r] \in Int
      /\ HoldOf[q] = hold
  BY <1>1, <1>4, <1>5, OpenFacts DEF HoldOf, OpenRequests
<1>9. ASSUME NEW S \in SUBSET OpenRequests
      PROVE  /\ q \in S => SumFunctionOnSet(HoldOf', S \ {q})
                             = SumFunctionOnSet(HoldOf, S) - hold
             /\ q \notin S => SumFunctionOnSet(HoldOf', S) = SumFunctionOnSet(HoldOf, S)
  <2>1. IsFiniteSet(S) /\ IsFiniteSet(S \ {q})
    BY OpenFacts, FS_Subset
  <2>2. \A r \in S \ {q} : HoldOf'[r] = HoldOf[r] /\ HoldOf[r] \in Int
    BY <1>8
  <2>3. \A r \in S : HoldOf[r] \in Int
    BY <1>8
  <2>4. SumFunctionOnSet(HoldOf', S \ {q}) = SumFunctionOnSet(HoldOf, S \ {q})
    BY <2>1, <2>2, SumSame
  <2>5. ASSUME q \in S
        PROVE  SumFunctionOnSet(HoldOf', S \ {q}) = SumFunctionOnSet(HoldOf, S) - hold
    <3>1. /\ SumFunctionOnSet(HoldOf, S) = HoldOf[q] + SumFunctionOnSet(HoldOf, S \ {q})
          /\ SumFunctionOnSet(HoldOf, S \ {q}) \in Int
      BY <2>1, <2>3, <2>5, SumWithout
    <3>2. QED
      BY <1>1, <1>8, <2>4, <3>1
  <2>6. ASSUME q \notin S
        PROVE  SumFunctionOnSet(HoldOf', S) = SumFunctionOnSet(HoldOf, S)
    <3>1. S \ {q} = S
      BY <2>6
    <3>2. QED
      BY <2>4, <3>1
  <2>7. QED
    BY <2>5, <2>6
<1>10. wallet'.reserved = SumFunctionOnSet(HoldOf', OpenRequests')
  BY <1>2, <1>7, <1>9 DEF HoldsMatch
<1>11. ASSUME NEW c \in BudgetIds
       PROVE  budget'[c].reserved = SumFunctionOnSet(HoldOf', OpenOn(c)')
  <2>1. budget[c].reserved = SumFunctionOnSet(HoldOf, OpenOn(c)) /\ budget[c] \in BudgetRow
    BY DEF HoldsMatch, TypeOK
  <2>2. OpenOn(c) \in SUBSET OpenRequests
    BY OpenFacts
  <2>3. CASE c = request[q].budget
    <3>1. OpenOn(c)' = OpenOn(c) \ {q} /\ q \in OpenOn(c)
      BY <1>1, <1>5, <1>7, <2>3 DEF OpenOn, OpenRequests
    <3>2. budget'[c].reserved = budget[c].reserved - hold
      BY <1>3, <2>1, <2>3 DEF BudgetRow
    <3>3. QED
      BY <1>9, <2>1, <2>2, <3>1, <3>2
  <2>4. CASE c # request[q].budget
    <3>1. OpenOn(c)' = OpenOn(c) /\ q \notin OpenOn(c)
      BY <1>1, <1>5, <1>7, <2>4 DEF OpenOn, OpenRequests
    <3>2. budget'[c] = budget[c]
      BY <1>3, <2>4
    <3>3. QED
      BY <1>9, <2>1, <2>2, <3>1, <3>2
  <2>5. QED
    BY <2>3, <2>4
<1>12. QED
  BY <1>10, <1>11 DEF HoldsMatch

(* Marking and sweeping give an open request another open status.          *)
LEMMA HoldsRestatus ==
    ASSUME TypeOK, TypeOK', SerialInv, overlapped = {}, HoldsMatch,
           \/ \E t \in open : mark_pending_reconciliation(t)
           \/ \E stale \in SUBSET Requests : recover_stale_model_reservations(stale)
    PROVE  HoldsMatch'
<1>1. UNCHANGED <<wallet, budget>>
  BY DEF mark_pending_reconciliation, recover_stale_model_reservations
<1>2. ASSUME NEW r \in Requests
      PROVE  /\ request'[r].status \in OpenStatuses <=> request[r].status \in OpenStatuses
             /\ request[r].status \in OpenStatuses =>
                   /\ request'[r].hold = request[r].hold
                   /\ request'[r].budget = request[r].budget
  <2>1. request[r] \in RequestRow
    BY DEF TypeOK
  <2>2. ASSUME NEW t \in open, mark_pending_reconciliation(t)
        PROVE  /\ request'[r].status \in OpenStatuses <=> request[r].status \in OpenStatuses
               /\ request'[r].hold = request[r].hold
               /\ request'[r].budget = request[r].budget
    <3>1. t.req \in Requests /\ request[t.req].status \in OpenStatuses
      BY DEF TypeOK, Transaction, SerialInv
    <3>2. request' = [request EXCEPT ![t.req].status = "pending_reconciliation"]
      BY <2>2 DEF mark_pending_reconciliation
    <3>3. /\ r # t.req => request'[r] = request[r]
          /\ r = t.req => request'[r].status = "pending_reconciliation"
          /\ request'[r].hold = request[r].hold
          /\ request'[r].budget = request[r].budget
      BY <2>1, <3>1, <3>2 DEF TypeOK, RequestRow
    <3>4. QED
      BY <3>1, <3>3 DEF OpenStatuses
  <2>3. ASSUME NEW stale \in SUBSET Requests, recover_stale_model_reservations(stale)
        PROVE  /\ request'[r].status \in OpenStatuses <=> request[r].status \in OpenStatuses
               /\ request'[r].hold = request[r].hold
               /\ request'[r].budget = request[r].budget
    <3>1. r \in stale => request[r].status = "reserved"
      BY <2>3 DEF recover_stale_model_reservations
    <3>2. request'[r] = IF r \in stale
                        THEN [request[r] EXCEPT !.status = "pending_reconciliation"]
                        ELSE request[r]
      BY <2>3 DEF recover_stale_model_reservations
    <3>3. /\ r \notin stale => request'[r] = request[r]
          /\ r \in stale => request'[r].status = "pending_reconciliation"
          /\ request'[r].hold = request[r].hold
          /\ request'[r].budget = request[r].budget
      BY <2>1, <3>2 DEF RequestRow
    <3>4. QED
      BY <3>1, <3>3 DEF OpenStatuses
  <2>4. QED
    BY <2>2, <2>3
<1>3. QED
  BY <1>1, <1>2, HoldsKept

(* A new budget, and the one it replaces, hold nothing.                    *)
LEMMA HoldsCreate ==
    ASSUME TypeOK, TypeOK', BudgetInv, HoldsMatch, NEW limit \in BudgetLimits,
           NEW start \in Months, create_budget(limit, start)
    PROVE  HoldsMatch'
<1>1. UNCHANGED <<wallet, request>>
  BY DEF create_budget
<1>2. PICK new \in BudgetIds, current \in BudgetIds \cup {NoBudget} : \E row :
        /\ budget[new].status = "absent"
        /\ row.reserved = 0
        /\ budget' = [b \in BudgetIds |->
                        IF b = new THEN row
                        ELSE IF b = current
                             THEN [budget[b] EXCEPT !.status = "superseded"]
                             ELSE budget[b]]
  <2>1. PICK new \in BudgetIds, current \in BudgetIds \cup {NoBudget} :
          /\ budget[new].status = "absent"
          /\ LET row == [status   |-> "active",
                         limit    |-> limit,
                         spent    |-> carried_spend(current),
                         reserved |-> 0,
                         month    |-> start]
             IN  budget' = [b \in BudgetIds |->
                              IF b = new THEN row
                              ELSE IF b = current
                                   THEN [budget[b] EXCEPT !.status = "superseded"]
                                   ELSE budget[b]]
    BY DEF create_budget
  <2> DEFINE row == [status   |-> "active",
                     limit    |-> limit,
                     spent    |-> carried_spend(current),
                     reserved |-> 0,
                     month    |-> start]
  <2>2. row.reserved = 0
    OBVIOUS
  <2>3. budget' = [b \in BudgetIds |->
                     IF b = new THEN row
                     ELSE IF b = current
                          THEN [budget[b] EXCEPT !.status = "superseded"]
                          ELSE budget[b]]
    BY <2>1
  <2> HIDE DEF row
  <2>4. QED
    BY <2>1, <2>2, <2>3
<1>3. PICK row :
        /\ budget[new].status = "absent"
        /\ row.reserved = 0
        /\ budget' = [b \in BudgetIds |->
                        IF b = new THEN row
                        ELSE IF b = current
                             THEN [budget[b] EXCEPT !.status = "superseded"]
                             ELSE budget[b]]
  BY <1>2
<1>4. \A b \in BudgetIds : budget'[b].reserved = budget[b].reserved
  <2>1. budget[new].reserved = 0
    BY <1>3 DEF BudgetInv, OneActiveBudget
  <2>2. QED
    BY <1>3, <2>1 DEF TypeOK, BudgetRow
<1>5. QED
  BY <1>1, <1>4, HoldsKept

LEMMA HoldsInit == Init => HoldsMatch
<1> SUFFICES ASSUME Init PROVE HoldsMatch
  OBVIOUS
<1>1. OpenRequests = {} /\ \A b : OpenOn(b) = {}
  BY DEF Init, NoRequestRow, OpenRequests, OpenOn, OpenStatuses
<1>2. wallet.reserved = 0 /\ \A b \in BudgetIds : budget[b].reserved = 0
  BY DEF Init, NoBudgetRow
<1>3. QED
  BY <1>1, <1>2, SumOfNone DEF HoldsMatch

LEMMA HoldsStep ==
    /\ TypeOK /\ BudgetInv /\ SerialInv /\ (overlapped = {} => HoldsMatch)
    /\ [Next]_vars
    => (overlapped = {} => HoldsMatch)'
<1> SUFFICES ASSUME TypeOK, BudgetInv, SerialInv, overlapped = {} => HoldsMatch,
                    [Next]_vars, overlapped' = {}
             PROVE  HoldsMatch'
  OBVIOUS
<1>1. TypeOK'
  BY TypeStep
<1>2. CASE \E r \in Requests, v \in DOMAIN PriceList : reserve_model_request(r, v)
  <2>1. overlapped = {}
    BY <1>2 DEF reserve_model_request
  <2>2. QED
    BY <1>1, <1>2, <2>1, HoldsReserve
<1>3. CASE \E t \in open : \/ \E response \in Responses, up \in UpstreamCosts :
                                 settle_model_request(t, response, up)
                           \/ release_model_request(t)
  <2>1. PICK t \in open, charged \in Nat, row \in RequestRow :
          Commits(t, charged, row) /\ MovesHold(t, charged)
    BY <1>3, SettleCommits, ReleaseCommits DEF MovesHold
  <2>2. overlapped = {}
    BY <2>1 DEF Commits
  <2>3. QED
    BY <1>1, <2>1, <2>2, HoldsCommit
<1>4. CASE \/ \E t \in open : mark_pending_reconciliation(t)
           \/ \E stale \in SUBSET Requests : recover_stale_model_reservations(stale)
  <2>1. overlapped = {}
    BY <1>4 DEF mark_pending_reconciliation, recover_stale_model_reservations
  <2>2. QED
    BY <1>1, <1>4, <2>1, HoldsRestatus
<1>5. CASE \E limit \in BudgetLimits, start \in Months : create_budget(limit, start)
  <2>1. overlapped = {}
    BY <1>5 DEF create_budget
  <2>2. QED
    BY <1>1, <1>5, <2>1, HoldsCreate
<1>6. CASE UNCHANGED <<wallet, budget, request>> /\ overlapped \subseteq overlapped'
  <2>1. overlapped = {}
    BY <1>6
  <2>2. QED
    BY <1>1, <1>6, <2>1, HoldsKept
<1>7. QED
  BY <1>2, <1>3, <1>4, <1>5, <1>6
  DEF Next, Finalizers, vars, Open, Rollback, ChangeAdmission, NextMonth, seed_prices

(* While finalizing transactions of one request never overlap, the wallet  *)
(* and every budget hold exactly what the open requests hold: no hold is   *)
(* left behind, none is taken twice.                                       *)
THEOREM HoldsAccountedForHolds == Spec => []HoldsAccountedFor
<1> DEFINE Inv == TypeOK /\ BudgetInv /\ SerialInv /\ (overlapped = {} => HoldsMatch)
<1>1. Init => Inv
  BY TypeInit, BudgetInit, SerialInit, HoldsInit
<1>2. Inv /\ [Next]_vars => Inv'
  BY TypeStep, BudgetStep, SerialStep, HoldsStep
<1>3. Inv => HoldsAccountedFor
  BY HoldsAre
<1> HIDE DEF Inv
<1>4. QED
  BY <1>1, <1>2, <1>3, PTL DEF Spec

-----------------------------------------------------------------------------
(* The month's budget carries the month's spend                            *)

(* The requests that were held against a budget of month m.                *)
HeldIn(m) ==
    {r \in Requests : request[r].budget # NoBudget
                        /\ budget[request[r].budget].month = m}

(* A charge is on a row only once its settlement is posted, a row names a  *)
(* budget that exists, and a month that ever had a budget has an active    *)
(* one, so that a new budget without a predecessor has nothing to carry.   *)
SpendInv ==
    /\ \A r \in Requests :
          /\ request[r].status = "absent" =>
                request[r].budget = NoBudget /\ <<r, "settle">> \notin posted
          /\ <<r, "settle">> \notin posted => request[r].charged = 0
          /\ request[r].budget # NoBudget =>
                budget[request[r].budget].status # "absent"
    /\ \A b \in BudgetIds : budget[b].status # "absent" =>
          \E c \in BudgetIds : budget[c].status = "active"
                                 /\ budget[c].month = budget[b].month
    /\ \A b \in BudgetIds : budget[b].status = "active" =>
          \A m : m = budget[b].month =>
             budget[b].spent = SumFunctionOnSet(ChargeOf, HeldIn(m))

LEMMA SpendIsComplete == SpendInv => MonthSpendIsComplete
  BY DEF SpendInv, MonthSpendIsComplete, HeldIn

(* The rows a month's spend is summed over.                                *)
LEMMA HeldFacts ==
    ASSUME TypeOK
    PROVE  /\ \A m : HeldIn(m) \subseteq Requests /\ IsFiniteSet(HeldIn(m))
           /\ \A r \in Requests : ChargeOf[r] = request[r].charged /\ ChargeOf[r] \in Int
           /\ \A r \in Requests : request[r].budget # NoBudget =>
                 request[r].budget \in BudgetIds
           /\ \A b \in BudgetIds : b # NoBudget
<1>1. \A m : HeldIn(m) \subseteq Requests
  BY DEF HeldIn
<1>2. IsFiniteSet(Requests) /\ \A b \in BudgetIds : b # NoBudget
  BY ConstantsAssumption
<1>3. \A r \in Requests : /\ ChargeOf[r] = request[r].charged /\ ChargeOf[r] \in Int
                          /\ request[r].budget # NoBudget =>
                                request[r].budget \in BudgetIds
  BY DEF ChargeOf, TypeOK, RequestRow
<1>4. QED
  BY <1>1, <1>2, <1>3, FS_Subset

LEMMA SpendInit == Init => SpendInv
  BY DEF Init, SpendInv, NoRequestRow, NoBudgetRow

(* A step that changes no budget's status, month and spend, no request's   *)
(* budget and charge, and posts no settlement.                             *)
LEMMA SpendKept ==
    ASSUME TypeOK, SpendInv,
           \A b \in BudgetIds : /\ budget'[b].status = budget[b].status
                                /\ budget'[b].month = budget[b].month
                                /\ budget'[b].spent = budget[b].spent,
           \A r \in Requests :
              /\ request'[r].budget = request[r].budget
              /\ request'[r].charged = request[r].charged
              /\ request'[r].status = "absent" => request[r].status = "absent"
              /\ <<r, "settle">> \in posted' <=> <<r, "settle">> \in posted
    PROVE  SpendInv'
<1>a. ASSUME NEW r \in Requests, request[r].budget # NoBudget
      PROVE  /\ budget'[request[r].budget].status = budget[request[r].budget].status
             /\ budget'[request[r].budget].month = budget[request[r].budget].month
  <2>1. request[r].budget \in BudgetIds
    BY <1>a, HeldFacts
  <2>2. QED
    BY <2>1
<1>1. \A m : HeldIn(m)' = HeldIn(m)
  BY <1>a DEF HeldIn
<1>2. ChargeOf' = ChargeOf
  BY DEF ChargeOf
<1>3. ASSUME NEW r \in Requests
      PROVE  /\ request'[r].status = "absent" =>
                   request'[r].budget = NoBudget /\ <<r, "settle">> \notin posted'
             /\ <<r, "settle">> \notin posted' => request'[r].charged = 0
             /\ request'[r].budget # NoBudget =>
                   budget'[request'[r].budget].status # "absent"
  <2>1. /\ request[r].status = "absent" =>
              request[r].budget = NoBudget /\ <<r, "settle">> \notin posted
        /\ <<r, "settle">> \notin posted => request[r].charged = 0
        /\ request[r].budget # NoBudget => budget[request[r].budget].status # "absent"
    BY DEF SpendInv
  <2>2. QED
    BY <1>a, <2>1
<1>4. \A b \in BudgetIds : budget'[b].status # "absent" =>
         \E c \in BudgetIds : budget'[c].status = "active"
                                /\ budget'[c].month = budget'[b].month
  BY DEF SpendInv
<1>5. \A b \in BudgetIds : budget'[b].status = "active" =>
         \A m : m = budget'[b].month =>
            budget'[b].spent = SumFunctionOnSet(ChargeOf', HeldIn(m)')
  BY <1>1, <1>2 DEF SpendInv
<1>6. QED
  BY <1>3, <1>4, <1>5 DEF SpendInv

(* An admitted request joins its month with nothing charged yet.           *)
LEMMA SpendReserve ==
    ASSUME TypeOK, TypeOK', SpendInv, NEW q \in Requests, NEW v \in DOMAIN PriceList,
           reserve_model_request(q, v)
    PROVE  SpendInv'
<1>1. PICK b \in BudgetIds \cup {NoBudget}, hold \in Nat \ {0} :
        /\ active_budget(b)
        /\ request[q].status = "absent"
        /\ request'[q].status = "reserved"
        /\ request'[q].budget = b
        /\ request'[q].charged = 0
        /\ \A r \in Requests : r # q => request'[r] = request[r]
        /\ budget' = [c \in BudgetIds |->
                        IF c = b
                        THEN [budget[c] EXCEPT !.reserved = @ + hold]
                        ELSE budget[c]]
        /\ posted' = posted \cup {<<q, "reserve">>}
  BY ReserveWrites
<1>2. \A c \in BudgetIds : /\ budget'[c].status = budget[c].status
                           /\ budget'[c].month = budget[c].month
                           /\ budget'[c].spent = budget[c].spent
  BY <1>1 DEF TypeOK, BudgetRow
<1>3. /\ request[q].budget = NoBudget /\ request[q].charged = 0
      /\ \A r \in Requests : <<r, "settle">> \in posted' <=> <<r, "settle">> \in posted
  BY <1>1 DEF SpendInv
<1>4. b # NoBudget => budget[b].status = "active"
  BY <1>1 DEF active_budget, newest_active
<1>5. \A r \in Requests : ChargeOf'[r] = ChargeOf[r] /\ ChargeOf[r] \in Int
  BY <1>1, <1>3, HeldFacts DEF ChargeOf
<1>6. ChargeOf[q] = 0
  BY <1>3, HeldFacts
<1>7. ASSUME NEW m
      PROVE  SumFunctionOnSet(ChargeOf', HeldIn(m)') = SumFunctionOnSet(ChargeOf, HeldIn(m))
  <2>1. q \notin HeldIn(m)
    BY <1>3 DEF HeldIn
  <2>2. HeldIn(m)' = HeldIn(m) \/ HeldIn(m)' = HeldIn(m) \cup {q}
    <3>1. ASSUME NEW r \in Requests, r # q
          PROVE  r \in HeldIn(m)' <=> r \in HeldIn(m)
      BY <1>1, <1>2, <3>1, HeldFacts DEF HeldIn
    <3>2. HeldIn(m)' \subseteq Requests /\ HeldIn(m) \subseteq Requests
      BY DEF HeldIn
    <3>3. QED
      BY <2>1, <3>1, <3>2
  <2>3. /\ HeldIn(m) \subseteq Requests /\ IsFiniteSet(HeldIn(m))
        /\ HeldIn(m)' \subseteq Requests /\ IsFiniteSet(HeldIn(m)')
    <3>1. HeldIn(m)' \subseteq Requests
      BY DEF HeldIn
    <3>2. QED
      BY <3>1, HeldFacts, ConstantsAssumption, FS_Subset
  <2>4. SumFunctionOnSet(ChargeOf', HeldIn(m)') = SumFunctionOnSet(ChargeOf, HeldIn(m)')
    BY <1>5, <2>3, SumSame
  <2>5. /\ SumFunctionOnSet(ChargeOf, HeldIn(m) \cup {q})
             = SumFunctionOnSet(ChargeOf, HeldIn(m)) + ChargeOf[q]
        /\ SumFunctionOnSet(ChargeOf, HeldIn(m)) \in Int
    BY <1>5, <2>1, <2>3, SumWith, SumIsInt
  <2>6. SumFunctionOnSet(ChargeOf, HeldIn(m) \cup {q}) = SumFunctionOnSet(ChargeOf, HeldIn(m))
    BY <1>6, <2>5
  <2>7. SumFunctionOnSet(ChargeOf, HeldIn(m)') = SumFunctionOnSet(ChargeOf, HeldIn(m))
    <3>1. CASE HeldIn(m)' = HeldIn(m)
      BY ONLY <3>1
    <3>2. CASE HeldIn(m)' = HeldIn(m) \cup {q}
      BY ONLY <3>2, <2>6
    <3>3. QED
      BY <2>2, <3>1, <3>2
  <2>8. QED
    BY <2>4, <2>7
<1>8. \A r \in Requests :
         /\ request'[r].status = "absent" =>
               request'[r].budget = NoBudget /\ <<r, "settle">> \notin posted'
         /\ <<r, "settle">> \notin posted' => request'[r].charged = 0
         /\ request'[r].budget # NoBudget =>
               budget'[request'[r].budget].status # "absent"
  <2>1. ASSUME NEW r \in Requests, r # q
        PROVE  /\ request'[r].status = "absent" =>
                     request'[r].budget = NoBudget /\ <<r, "settle">> \notin posted'
               /\ <<r, "settle">> \notin posted' => request'[r].charged = 0
               /\ request'[r].budget # NoBudget =>
                     budget'[request'[r].budget].status # "absent"
    BY <1>1, <1>2, <1>3, <2>1, HeldFacts DEF SpendInv
  <2>2. request'[q].budget # NoBudget => budget'[request'[q].budget].status # "absent"
    BY <1>1, <1>2, <1>4
  <2>3. QED
    BY <1>1, <2>1, <2>2
<1>9. \A c \in BudgetIds : budget'[c].status # "absent" =>
         \E d \in BudgetIds : budget'[d].status = "active"
                                /\ budget'[d].month = budget'[c].month
  BY <1>2 DEF SpendInv
<1>10. \A c \in BudgetIds : budget'[c].status = "active" =>
          \A m : m = budget'[c].month =>
             budget'[c].spent = SumFunctionOnSet(ChargeOf', HeldIn(m)')
  BY <1>2, <1>7 DEF SpendInv
<1>11. QED
  BY <1>8, <1>9, <1>10 DEF SpendInv

(* A charge is booked on the budget the hold was taken from.  That budget  *)
(* still has the hold, so it is active and the only one of its month.      *)
LEMMA SpendCommit ==
    ASSUME TypeOK, TypeOK', BudgetInv, HoldInv, SpendInv, NEW t \in open,
           NEW charged \in Nat, NEW row \in RequestRow, Commits(t, charged, row),
           MovesHold(t, charged)
    PROVE  SpendInv'
<1> DEFINE q == t.req
           bud == request[q].budget
<1>1. /\ q \in Requests /\ request[q].status # "absent"
      /\ request[q].hold \in Nat \ {0}
  <2>1. q \in Requests /\ request[q].status # "absent"
    BY DEF TypeOK, Transaction, HoldInv
  <2>2. request[q].price \in DOMAIN PriceList
    BY <2>1 DEF TypeOK, RequestRow
  <2>3. PriceList[request[q].price] \in Price /\ Payloads[q] \in Payload
    BY <2>1, <2>2, ConstantsAssumption, PriceListAssumption
  <2>4. request[q].hold = reserve_amount(PriceList[request[q].price], Payloads[q])
    BY <2>1 DEF HoldInv
  <2> HIDE DEF q
  <2>5. QED
    BY <2>1, <2>3, <2>4, ReserveAmountPositive
<1>2. /\ request'[q] = row
      /\ \A r \in Requests : r # q => request'[r] = request[r]
      /\ row.budget = bud /\ row.status # "absent"
      /\ posted' = posted \cup {<<q, t.op>>}
      /\ <<q, t.op>> \notin posted
      /\ t.op \in {"settle", "release"}
      /\ t.op = "settle" => row.charged = charged
      /\ t.op = "release" => row.charged = request[q].charged /\ charged = 0
      /\ bud # NoBudget => budget[bud].reserved >= request[q].hold
  BY <1>1 DEF Commits, TypeOK, FinalStatuses
<1>3. budget' = [b \in BudgetIds |->
                   IF b = bud
                   THEN [budget[b] EXCEPT !.reserved = @ - request[q].hold,
                                          !.spent = @ + charged]
                   ELSE budget[b]]
  BY DEF MovesHold
<1> HIDE DEF q
<1>4. /\ bud # NoBudget => bud \in BudgetIds
      /\ \A b \in BudgetIds : b # NoBudget
  BY <1>1, HeldFacts
<1> DEFINE hold == request[q].hold
<1>5. /\ \A b \in BudgetIds : b # bud => budget'[b] = budget[b]
      /\ bud # NoBudget =>
            /\ budget'[bud].status = budget[bud].status
            /\ budget'[bud].month = budget[bud].month
            /\ budget'[bud].spent = budget[bud].spent + charged
            /\ budget[bud].spent \in Nat
            /\ budget[bud].reserved \in Nat
  <2> HIDE DEF bud, hold
  <2>1. \A b \in BudgetIds : b # bud => budget'[b] = budget[b]
    BY <1>3
  <2>2. ASSUME bud # NoBudget
        PROVE  /\ budget'[bud].status = budget[bud].status
               /\ budget'[bud].month = budget[bud].month
               /\ budget'[bud].spent = budget[bud].spent + charged
               /\ budget[bud].spent \in Nat
               /\ budget[bud].reserved \in Nat
    <3>1. bud \in BudgetIds /\ budget[bud] \in BudgetRow
      BY <1>4, <2>2 DEF TypeOK
    <3>2. QED
      BY <1>3, <3>1 DEF BudgetRow
  <2>3. QED
    BY <2>1, <2>2
<1>6. bud # NoBudget => budget[bud].status = "active"
  <2>1. SUFFICES ASSUME bud # NoBudget PROVE budget[bud].reserved # 0
    BY <1>4 DEF BudgetInv, OneActiveBudget
  <2>2. QED
    BY <1>1, <1>2, <1>5, <2>1
<1>7. \A b \in BudgetIds : /\ budget'[b].status = budget[b].status
                           /\ budget'[b].month = budget[b].month
  BY <1>4, <1>5
<1>8. \A r \in Requests : /\ request'[r].budget = request[r].budget
                          /\ request'[r].status = "absent" => request[r].status = "absent"
  BY <1>1, <1>2
<1>9. CASE t.op = "release"
  <2>1. \A b \in BudgetIds : budget'[b].spent = budget[b].spent
    BY <1>2, <1>4, <1>5, <1>9
  <2>2. \A r \in Requests :
           /\ request'[r].charged = request[r].charged
           /\ <<r, "settle">> \in posted' <=> <<r, "settle">> \in posted
    BY <1>1, <1>2, <1>9
  <2>3. QED
    BY <1>7, <1>8, <2>1, <2>2, SpendKept
<1>10. CASE t.op = "settle"
  <2>1. /\ ChargeOf[q] = 0 /\ ChargeOf'[q] = charged
        /\ \A r \in Requests : r # q => ChargeOf'[r] = ChargeOf[r]
        /\ \A r \in Requests : ChargeOf[r] \in Int
    BY <1>1, <1>2, <1>10, HeldFacts DEF ChargeOf, SpendInv
  <2>2. \A m : HeldIn(m)' = HeldIn(m)
    BY <1>7, <1>8, HeldFacts DEF HeldIn
  <2>3. ASSUME NEW b \in BudgetIds, budget[b].status = "active"
        PROVE  budget'[b].spent = SumFunctionOnSet(ChargeOf', HeldIn(budget[b].month))
    <3> DEFINE S == HeldIn(budget[b].month)
    <3>1. S \subseteq Requests /\ IsFiniteSet(S)
      BY HeldFacts
    <3>2. budget[b].spent = SumFunctionOnSet(ChargeOf, S)
      BY <2>3 DEF SpendInv
    <3>3. q \in S <=> b = bud
      <4>1. q \in S <=> bud # NoBudget /\ budget[bud].month = budget[b].month
        BY <1>1 DEF HeldIn
      <4>2. bud # NoBudget /\ budget[bud].month = budget[b].month => b = bud
        BY <1>4, <1>6, <2>3 DEF BudgetInv, OneActiveBudget
      <4>3. QED
        BY <1>4, <4>1, <4>2
    <3> HIDE DEF S
    <3>4. CASE b = bud
      <4>1. SumFunctionOnSet(ChargeOf', S) = SumFunctionOnSet(ChargeOf, S)
                                               + (ChargeOf'[q] - ChargeOf[q])
        <5>1. \A y \in S : ChargeOf[y] \in Int
          BY <2>1, <3>1
        <5>2. \A y \in S \ {q} : ChargeOf'[y] = ChargeOf[y]
          BY <2>1, <3>1
        <5>3. q \in S /\ ChargeOf'[q] \in Int
          BY <2>1, <3>3, <3>4
        <5>4. QED
          BY <3>1, <5>1, <5>2, <5>3, SumChanged
      <4>2. budget'[b].spent = budget[b].spent + charged
        BY <1>4, <1>5, <3>4
      <4>3. budget[b].spent \in Nat
        BY DEF TypeOK, BudgetRow
      <4>4. QED
        BY <2>1, <3>2, <4>1, <4>2, <4>3 DEF S
    <3>5. CASE b # bud
      <4>1. \A y \in S : ChargeOf'[y] = ChargeOf[y] /\ ChargeOf[y] \in Int
        BY <2>1, <3>1, <3>3, <3>5
      <4>2. SumFunctionOnSet(ChargeOf', S) = SumFunctionOnSet(ChargeOf, S)
        BY <3>1, <4>1, SumSame
      <4>3. QED
        BY <1>5, <3>2, <3>5, <4>2 DEF S
    <3>6. QED
      BY <3>4, <3>5
  <2>4. \A r \in Requests :
           /\ request'[r].status = "absent" =>
                 request'[r].budget = NoBudget /\ <<r, "settle">> \notin posted'
           /\ <<r, "settle">> \notin posted' => request'[r].charged = 0
           /\ request'[r].budget # NoBudget =>
                 budget'[request'[r].budget].status # "absent"
    <3>1. ASSUME NEW r \in Requests, r # q
          PROVE  /\ request'[r].status = "absent" =>
                       request'[r].budget = NoBudget /\ <<r, "settle">> \notin posted'
                 /\ <<r, "settle">> \notin posted' => request'[r].charged = 0
                 /\ request'[r].budget # NoBudget =>
                       budget'[request'[r].budget].status # "absent"
      BY <1>2, <1>4, <1>7, <3>1, HeldFacts DEF SpendInv
    <3>2. <<q, "settle">> \in posted' /\ request'[q].status # "absent"
      BY <1>2, <1>10
    <3>3. request'[q].budget # NoBudget => budget'[request'[q].budget].status # "absent"
      BY <1>1, <1>4, <1>6, <1>7, <1>8
    <3>4. QED
      BY <3>1, <3>2, <3>3
  <2>5. \A c \in BudgetIds : budget'[c].status # "absent" =>
           \E d \in BudgetIds : budget'[d].status = "active"
                                  /\ budget'[d].month = budget'[c].month
    BY <1>7 DEF SpendInv
  <2>6. \A c \in BudgetIds : budget'[c].status = "active" =>
            \A m : m = budget'[c].month =>
               budget'[c].spent = SumFunctionOnSet(ChargeOf', HeldIn(m)')
    BY <1>7, <2>2, <2>3
  <2>7. QED
    BY <2>4, <2>5, <2>6 DEF SpendInv
<1>11. QED
  BY <1>2, <1>9, <1>10

(* A new budget carries the spend of the one it replaces, or is the first  *)
(* of a month in which nothing was held against a budget.                  *)
LEMMA SpendCreate ==
    ASSUME TypeOK, SpendInv, NEW limit \in BudgetLimits, NEW start \in Months,
           create_budget(limit, start)
    PROVE  SpendInv'
<1>1. request' = request /\ posted' = posted
  BY DEF create_budget
<1>2. PICK new \in BudgetIds, current \in BudgetIds \cup {NoBudget} : \E row :
        /\ budget[new].status = "absent"
        /\ newest_active(current, start)
        /\ row.status = "active" /\ row.month = start
        /\ row.spent = carried_spend(current)
        /\ budget' = [b \in BudgetIds |->
                        IF b = new THEN row
                        ELSE IF b = current
                             THEN [budget[b] EXCEPT !.status = "superseded"]
                             ELSE budget[b]]
  <2>1. PICK new \in BudgetIds, current \in BudgetIds \cup {NoBudget} :
          /\ budget[new].status = "absent"
          /\ newest_active(current, start)
          /\ LET row == [status   |-> "active",
                         limit    |-> limit,
                         spent    |-> carried_spend(current),
                         reserved |-> 0,
                         month    |-> start]
             IN  budget' = [b \in BudgetIds |->
                              IF b = new THEN row
                              ELSE IF b = current
                                   THEN [budget[b] EXCEPT !.status = "superseded"]
                                   ELSE budget[b]]
    BY DEF create_budget
  <2> DEFINE row == [status   |-> "active",
                     limit    |-> limit,
                     spent    |-> carried_spend(current),
                     reserved |-> 0,
                     month    |-> start]
  <2>2. /\ row.status = "active" /\ row.month = start
        /\ row.spent = carried_spend(current)
    OBVIOUS
  <2>3. budget' = [b \in BudgetIds |->
                     IF b = new THEN row
                     ELSE IF b = current
                          THEN [budget[b] EXCEPT !.status = "superseded"]
                          ELSE budget[b]]
    BY <2>1
  <2> HIDE DEF row
  <2>4. QED
    BY <2>1, <2>2, <2>3
<1>3. /\ budget[new].status = "absent"
      /\ newest_active(current, start)
      /\ budget'[new].status = "active" /\ budget'[new].month = start
      /\ budget'[new].spent = carried_spend(current)
  BY <1>2
<1>4. ASSUME NEW b \in BudgetIds, b # new
      PROVE  /\ budget'[b].status = IF b = current THEN "superseded" ELSE budget[b].status
             /\ budget'[b].month = budget[b].month
             /\ budget'[b].spent = budget[b].spent
  BY <1>2, <1>4 DEF TypeOK, BudgetRow
<1>5. current # NoBudget =>
         /\ current \in BudgetIds /\ current # new
         /\ budget[current].status = "active" /\ budget[current].month = start
  BY <1>3 DEF newest_active
<1>6. current = NoBudget =>
         \A b \in BudgetIds : budget[b].status = "active" => budget[b].month # start
  BY <1>3, HeldFacts DEF newest_active
<1>7. ChargeOf' = ChargeOf
  BY <1>1 DEF ChargeOf
<1>8. ASSUME NEW r \in Requests, request[r].budget # NoBudget
      PROVE  /\ request[r].budget \in BudgetIds /\ request[r].budget # new
             /\ budget[request[r].budget].status # "absent"
             /\ budget'[request[r].budget].month = budget[request[r].budget].month
             /\ budget'[request[r].budget].status # "absent"
  <2>1. request[r].budget \in BudgetIds /\ budget[request[r].budget].status # "absent"
    BY <1>8, HeldFacts DEF SpendInv
  <2>2. QED
    BY <1>3, <1>4, <2>1
<1>9. \A m : HeldIn(m)' = HeldIn(m)
  BY <1>1, <1>8 DEF HeldIn
<1>10. budget'[new].spent = SumFunctionOnSet(ChargeOf, HeldIn(start))
  <2>1. CASE current # NoBudget
    BY <1>3, <1>5, <2>1 DEF carried_spend, SpendInv
  <2>2. CASE current = NoBudget
    <3>1. ASSUME NEW r \in HeldIn(start) PROVE FALSE
      <4>1. /\ r \in Requests /\ request[r].budget # NoBudget
            /\ budget[request[r].budget].month = start
        BY DEF HeldIn
      <4>2. PICK c \in BudgetIds : budget[c].status = "active" /\ budget[c].month = start
        BY <1>8, <4>1 DEF SpendInv
      <4>3. QED
        BY <1>6, <2>2, <4>2
    <3>2. HeldIn(start) = {}
      BY <3>1
    <3>3. QED
      BY <1>3, <2>2, <3>2, SumOfNone DEF carried_spend
  <2>3. QED
    BY <2>1, <2>2
<1>11. \A r \in Requests :
          /\ request'[r].status = "absent" =>
                request'[r].budget = NoBudget /\ <<r, "settle">> \notin posted'
          /\ <<r, "settle">> \notin posted' => request'[r].charged = 0
          /\ request'[r].budget # NoBudget =>
                budget'[request'[r].budget].status # "absent"
  BY <1>1, <1>8 DEF SpendInv
<1>12. ASSUME NEW b \in BudgetIds, budget'[b].status # "absent"
       PROVE  \E c \in BudgetIds : budget'[c].status = "active"
                                     /\ budget'[c].month = budget'[b].month
  <2>1. CASE budget'[b].month = start
    BY <1>3, <2>1
  <2>2. CASE budget'[b].month # start
    <3>1. b # new /\ budget[b].month # start /\ budget'[b].month = budget[b].month
      BY <1>3, <1>4, <2>2
    <3>2. budget[b].status # "absent"
      BY <1>4, <1>5, <1>12, <3>1, HeldFacts
    <3>3. PICK c \in BudgetIds : /\ budget[c].status = "active"
                                 /\ budget[c].month = budget[b].month
      BY <3>2 DEF SpendInv
    <3>4. c # new /\ c # current
      BY <1>3, <1>5, <3>1, <3>3, HeldFacts
    <3>5. QED
      BY <1>4, <3>1, <3>3, <3>4
  <2>3. QED
    BY <2>1, <2>2
<1>13. ASSUME NEW b \in BudgetIds, budget'[b].status = "active",
              NEW m, m = budget'[b].month
       PROVE  budget'[b].spent = SumFunctionOnSet(ChargeOf', HeldIn(m)')
  <2>1. CASE b = new
    BY <1>3, <1>7, <1>9, <1>10, <1>13, <2>1
  <2>2. CASE b # new
    <3>1. /\ budget[b].status = "active" /\ budget'[b].month = budget[b].month
          /\ budget'[b].spent = budget[b].spent
      BY <1>4, <1>13, <2>2
    <3>2. QED
      BY <1>7, <1>9, <1>13, <3>1 DEF SpendInv
  <2>3. QED
    BY <2>1, <2>2
<1>14. QED
  BY <1>11, <1>12, <1>13 DEF SpendInv

(* Marking and sweeping change a status only.                              *)
LEMMA SpendRestatus ==
    ASSUME TypeOK, SpendInv,
           \/ \E t \in open : mark_pending_reconciliation(t)
           \/ \E stale \in SUBSET Requests : recover_stale_model_reservations(stale)
    PROVE  SpendInv'
<1>1. budget' = budget /\ posted' = posted
  BY DEF mark_pending_reconciliation, recover_stale_model_reservations
<1>2. ASSUME NEW r \in Requests
      PROVE  /\ request'[r].budget = request[r].budget
             /\ request'[r].charged = request[r].charged
             /\ request'[r].status \in {request[r].status, "pending_reconciliation"}
  <2>1. request[r] \in RequestRow
    BY DEF TypeOK
  <2>2. ASSUME NEW t \in open, mark_pending_reconciliation(t)
        PROVE  \/ request'[r] = request[r]
               \/ request'[r] = [request[r] EXCEPT !.status = "pending_reconciliation"]
    BY <2>2 DEF mark_pending_reconciliation, TypeOK
  <2>3. ASSUME NEW stale \in SUBSET Requests, recover_stale_model_reservations(stale)
        PROVE  \/ request'[r] = request[r]
               \/ request'[r] = [request[r] EXCEPT !.status = "pending_reconciliation"]
    BY <2>3 DEF recover_stale_model_reservations
  <2>4. \/ request'[r] = request[r]
        \/ request'[r] = [request[r] EXCEPT !.status = "pending_reconciliation"]
    BY <2>2, <2>3
  <2>5. QED
    BY <2>1, <2>4 DEF RequestRow
<1>3. QED
  BY <1>1, <1>2, SpendKept

LEMMA SpendStep ==
    TypeOK /\ BudgetInv /\ HoldInv /\ SpendInv /\ [Next]_vars => SpendInv'
<1> SUFFICES ASSUME TypeOK, BudgetInv, HoldInv, SpendInv, [Next]_vars
             PROVE  SpendInv'
  OBVIOUS
<1>1. TypeOK'
  BY TypeStep
<1>2. CASE \E r \in Requests, v \in DOMAIN PriceList : reserve_model_request(r, v)
  BY <1>1, <1>2, SpendReserve
<1>3. CASE \E t \in open : \/ \E response \in Responses, up \in UpstreamCosts :
                                 settle_model_request(t, response, up)
                           \/ release_model_request(t)
  <2>1. PICK t \in open, charged \in Nat, row \in RequestRow :
          Commits(t, charged, row) /\ MovesHold(t, charged)
    BY <1>3, SettleCommits, ReleaseCommits DEF MovesHold
  <2>2. QED
    BY <1>1, <2>1, SpendCommit
<1>4. CASE \/ \E t \in open : mark_pending_reconciliation(t)
           \/ \E stale \in SUBSET Requests : recover_stale_model_reservations(stale)
  BY <1>4, SpendRestatus
<1>5. CASE \E limit \in BudgetLimits, start \in Months : create_budget(limit, start)
  BY <1>5, SpendCreate
<1>6. CASE UNCHANGED <<budget, request, posted>>
  BY <1>6, SpendKept
<1>7. QED
  BY <1>2, <1>3, <1>4, <1>5, <1>6
  DEF Next, Finalizers, vars, Open, Rollback, ChangeAdmission, NextMonth, seed_prices

(* The active budget of a month carries every charge of every request that *)
(* was held against a budget of that month: replacing a budget, settling   *)
(* late and settling concurrently lose none and book none twice.           *)
THEOREM MonthSpendIsCompleteHolds == Spec => []MonthSpendIsComplete
<1> DEFINE Inv == TypeOK /\ BudgetInv /\ CoverInv /\ SpendInv
<1>1. Init => Inv
  BY TypeInit, BudgetInit, CoverInit, SpendInit
<1>2. Inv /\ [Next]_vars => Inv'
  BY TypeStep, BudgetStep, CoverStep, SpendStep DEF CoverInv
<1>3. Inv => MonthSpendIsComplete
  BY SpendIsComplete
<1> HIDE DEF Inv
<1>4. QED
  BY <1>1, <1>2, <1>3, PTL DEF Spec

-----------------------------------------------------------------------------
(* The customer's credit shrinks by what was charged                       *)

LEMMA ChargesInit == Init => ChargesAddUp
<1> SUFFICES ASSUME Init PROVE ChargesAddUp
  OBVIOUS
<1>1. IsFiniteSet(Requests) /\ Credit \in Nat
  BY ConstantsAssumption
<1>2. \A r \in Requests : ChargeOf[r] = 0
  BY DEF Init, ChargeOf, NoRequestRow
<1>3. SumFunctionOnSet(ChargeOf, Requests) = 0
  BY <1>1, <1>2, SumOfZeros
<1>4. wallet.balance = Credit /\ wallet.reserved = 0
  BY DEF Init
<1>5. QED
  BY <1>1, <1>3, <1>4 DEF ChargesAddUp

LEMMA ChargesFacts ==
    ASSUME TypeOK
    PROVE  /\ wallet.balance \in Nat /\ wallet.reserved \in Nat
           /\ IsFiniteSet(Requests)
           /\ \A r \in Requests : ChargeOf[r] = request[r].charged /\ ChargeOf[r] \in Int
           /\ SumFunctionOnSet(ChargeOf, Requests) \in Int
<1>1. IsFiniteSet(Requests) /\ \A r \in Requests : ChargeOf[r] \in Int
  BY HeldFacts, ConstantsAssumption
<1>2. SumFunctionOnSet(ChargeOf, Requests) \in Int
  BY <1>1, SumIsInt
<1>3. QED
  BY <1>1, <1>2, HeldFacts DEF TypeOK

(* A step that moves credit only between the wallet's columns.             *)
LEMMA ChargesKept ==
    ASSUME TypeOK, ChargesAddUp,
           wallet'.balance + wallet'.reserved = wallet.balance + wallet.reserved,
           \A r \in Requests : request'[r].charged = request[r].charged
    PROVE  ChargesAddUp'
<1>1. ChargeOf' = ChargeOf
  BY DEF ChargeOf
<1>2. QED
  BY <1>1 DEF ChargesAddUp

(* A settlement that is not posted yet is that of a row without a charge,  *)
(* whatever its status; a release leaves the row's charge as it is.        *)
LEMMA ChargesCommit ==
    ASSUME TypeOK, TypeOK', SpendInv, ChargesAddUp, NEW t \in open,
           NEW charged \in Nat, NEW row \in RequestRow, Commits(t, charged, row)
    PROVE  ChargesAddUp'
<1> DEFINE q == t.req
           hold == request[q].hold
           total == SumFunctionOnSet(ChargeOf, Requests)
<1>1. /\ q \in Requests /\ hold \in Nat
      /\ t.op \in {"settle", "release"}
      /\ t.op = "settle" => row.charged = charged
      /\ t.op = "release" => row.charged = request[q].charged /\ charged = 0
      /\ <<q, t.op>> \notin posted
      /\ request' = [request EXCEPT ![q] = row]
  BY DEF Commits, TypeOK, Transaction, RequestRow
<1>2. /\ wallet'.balance = wallet.balance + (hold - charged)
      /\ wallet'.reserved = wallet.reserved - hold
  BY DEF Commits
<1>3. /\ request'[q] = row
      /\ \A r \in Requests : r # q => request'[r] = request[r]
  BY <1>1 DEF TypeOK
<1>4. /\ wallet.balance \in Nat /\ wallet.reserved \in Nat
      /\ IsFiniteSet(Requests)
      /\ \A r \in Requests : ChargeOf[r] = request[r].charged /\ ChargeOf[r] \in Int
      /\ total \in Int
  BY ChargesFacts
<1>5. ChargeOf[q] + charged = row.charged
  <2>1. CASE t.op = "settle"
    <3>1. request[q].charged = 0
      BY <1>1, <2>1 DEF SpendInv
    <3> HIDE DEF q
    <3>2. QED
      BY <1>1, <1>4, <2>1, <3>1
  <2>2. CASE t.op = "release"
    <3> HIDE DEF q
    <3>1. QED
      BY <1>1, <1>4, <2>2
  <2>3. QED
    BY <1>1, <2>1, <2>2
<1> HIDE DEF q, hold
<1>6. /\ ChargeOf'[q] = row.charged
      /\ \A r \in Requests \ {q} : ChargeOf'[r] = ChargeOf[r]
  BY <1>1, <1>3 DEF ChargeOf
<1>7. SumFunctionOnSet(ChargeOf', Requests) = total + (ChargeOf'[q] - ChargeOf[q])
  <2>1. ChargeOf'[q] \in Int
    BY <1>6 DEF RequestRow
  <2>2. QED
    BY <1>1, <1>4, <1>6, <2>1, SumChanged
<1>8. ChargeOf'[q] - ChargeOf[q] = charged
  BY <1>1, <1>4, <1>5, <1>6
<1>9. total = Credit - wallet.balance - wallet.reserved
  BY <1>4, ConstantsAssumption DEF ChargesAddUp
<1> HIDE DEF total
<1>10. wallet'.balance + wallet'.reserved + (total + charged) = Credit
  BY <1>1, <1>2, <1>4, <1>9, ConstantsAssumption
<1>11. QED
  BY <1>7, <1>8, <1>10 DEF ChargesAddUp

LEMMA ChargesReserve ==
    ASSUME TypeOK, SpendInv, ChargesAddUp, NEW q \in Requests, NEW v \in DOMAIN PriceList,
           reserve_model_request(q, v)
    PROVE  ChargesAddUp'
<1>1. PICK hold \in Nat \ {0} :
        /\ request[q].status = "absent"
        /\ request'[q].charged = 0
        /\ \A r \in Requests : r # q => request'[r] = request[r]
        /\ wallet'.balance = wallet.balance - hold
        /\ wallet'.reserved = wallet.reserved + hold
  BY ReserveWrites
<1>2. request[q].charged = 0
  BY <1>1 DEF SpendInv
<1>3. wallet'.balance + wallet'.reserved = wallet.balance + wallet.reserved
  BY <1>1, ChargesFacts
<1>4. QED
  BY <1>1, <1>2, <1>3, ChargesKept

(* Marking and sweeping change a status only.                              *)
LEMMA ChargesRestatus ==
    ASSUME TypeOK, ChargesAddUp,
           \/ \E t \in open : mark_pending_reconciliation(t)
           \/ \E stale \in SUBSET Requests : recover_stale_model_reservations(stale)
    PROVE  ChargesAddUp'
<1>1. wallet' = wallet
  BY DEF mark_pending_reconciliation, recover_stale_model_reservations
<1>2. ASSUME NEW r \in Requests PROVE request'[r].charged = request[r].charged
  <2>1. request[r] \in RequestRow
    BY DEF TypeOK
  <2>2. ASSUME NEW t \in open, mark_pending_reconciliation(t)
        PROVE  \/ request'[r] = request[r]
               \/ request'[r] = [request[r] EXCEPT !.status = "pending_reconciliation"]
    BY <2>2 DEF mark_pending_reconciliation, TypeOK
  <2>3. ASSUME NEW stale \in SUBSET Requests, recover_stale_model_reservations(stale)
        PROVE  \/ request'[r] = request[r]
               \/ request'[r] = [request[r] EXCEPT !.status = "pending_reconciliation"]
    BY <2>3 DEF recover_stale_model_reservations
  <2>4. \/ request'[r] = request[r]
        \/ request'[r] = [request[r] EXCEPT !.status = "pending_reconciliation"]
    BY <2>2, <2>3
  <2>5. QED
    BY <2>1, <2>4 DEF RequestRow
<1>3. QED
  BY <1>1, <1>2, ChargesKept

LEMMA ChargesStep == TypeOK /\ SpendInv /\ ChargesAddUp /\ [Next]_vars => ChargesAddUp'
<1> SUFFICES ASSUME TypeOK, SpendInv, ChargesAddUp, [Next]_vars
             PROVE  ChargesAddUp'
  OBVIOUS
<1>1. CASE \E r \in Requests, v \in DOMAIN PriceList : reserve_model_request(r, v)
  BY <1>1, ChargesReserve
<1>2. CASE \E t \in open : \/ \E response \in Responses, up \in UpstreamCosts :
                                 settle_model_request(t, response, up)
                           \/ release_model_request(t)
  <2>1. PICK t \in open, charged \in Nat, row \in RequestRow : Commits(t, charged, row)
    BY <1>2, SettleCommits, ReleaseCommits
  <2>2. QED
    BY <2>1, TypeStep, ChargesCommit
<1>3. CASE \/ \E t \in open : mark_pending_reconciliation(t)
           \/ \E stale \in SUBSET Requests : recover_stale_model_reservations(stale)
  BY <1>3, ChargesRestatus
<1>4. CASE UNCHANGED <<wallet, request>>
  BY <1>4, ChargesKept
<1>5. QED
  BY <1>1, <1>2, <1>3, <1>4
  DEF Next, Finalizers, vars, Open, Rollback, create_budget, ChangeAdmission,
      NextMonth, seed_prices

(* However the transactions that finalize requests overlap (two sessions   *)
(* settling one request, a settlement beside a release, a settled request  *)
(* reopened by a late mark and settled again), what the customer has lost  *)
(* is the sum of the charges on the rows: settle_model_request's unique    *)
(* ledger key lets each request be charged once.                           *)
THEOREM ChargesAddUpHolds == Spec => []ChargesAddUp
<1> DEFINE Inv == TypeOK /\ BudgetInv /\ CoverInv /\ SpendInv /\ ChargesAddUp
<1>1. Init => Inv
  BY TypeInit, BudgetInit, CoverInit, SpendInit, ChargesInit
<1>2. Inv /\ [Next]_vars => Inv'
  BY TypeStep, BudgetStep, CoverStep, SpendStep, ChargesStep DEF CoverInv
<1>3. Inv => ChargesAddUp
  OBVIOUS
<1> HIDE DEF Inv
<1>4. QED
  BY <1>1, <1>2, <1>3, PTL DEF Spec

-----------------------------------------------------------------------------
(* One request per idempotency key                                         *)

(* Two rows never carry the same key, whatever became of either.           *)
KeyInv ==
    \A q, r \in Requests :
        /\ request[q].status # "absent" /\ request[r].status # "absent"
        /\ IdempotencyKey[q] = IdempotencyKey[r] /\ IdempotencyKey[r] # NoKey
        => q = r

(* A request, once admitted, keeps its row, and only a reservation with an *)
(* unused key adds one, its own.                                           *)
LEMMA RowsAreKept ==
    ASSUME TypeOK, HoldInv, [Next]_vars, NEW q \in Requests
    PROVE  /\ request'[q].status = "absent" => request[q].status = "absent"
           /\ request[q].status = "absent" /\ request'[q].status # "absent" =>
                 /\ key_unused(q)
                 /\ \A r \in Requests : r # q => request'[r] = request[r]
<1> DEFINE Same == request'[q].status = "absent" <=> request[q].status = "absent"
<1>1. CASE \E r \in Requests, v \in DOMAIN PriceList : reserve_model_request(r, v)
  <2>1. PICK r \in Requests, v \in DOMAIN PriceList : reserve_model_request(r, v)
    BY <1>1
  <2>2. key_unused(r)
    BY <2>1 DEF reserve_model_request
  <2>3. /\ request[r].status = "absent"
        /\ request'[r].status = "reserved"
        /\ \A p \in Requests : p # r => request'[p] = request[p]
    BY <2>1, ReserveWrites
  <2>4. QED
    BY <2>2, <2>3
<1>2. CASE \E t \in open : \/ \E response \in Responses, up \in UpstreamCosts :
                                 settle_model_request(t, response, up)
                           \/ release_model_request(t)
  <2>1. PICK t \in open, charged \in Nat, row \in RequestRow : Commits(t, charged, row)
    BY <1>2, SettleCommits, ReleaseCommits
  <2>2. /\ request' = [request EXCEPT ![t.req] = row]
        /\ row.status \in FinalStatuses
    BY <2>1 DEF Commits
  <2>3. t.req \in Requests /\ request[t.req].status # "absent"
    BY DEF TypeOK, Transaction, HoldInv
  <2>4. row.status # "absent"
    BY <2>2 DEF FinalStatuses
  <2>5. Same
    BY <2>2, <2>3, <2>4 DEF TypeOK
  <2>6. QED
    BY <2>5
<1>3. CASE \E t \in open : mark_pending_reconciliation(t)
  <2>1. PICK t \in open : mark_pending_reconciliation(t)
    BY <1>3
  <2>2. t.req \in Requests /\ request[t.req].status # "absent"
    BY DEF TypeOK, Transaction, HoldInv
  <2>3. /\ q # t.req => request'[q] = request[q]
        /\ q = t.req => request'[q].status = "pending_reconciliation"
    BY <2>1 DEF mark_pending_reconciliation, TypeOK, RequestRow
  <2>4. QED
    BY <2>2, <2>3
<1>4. CASE \E stale \in SUBSET Requests : recover_stale_model_reservations(stale)
  <2>1. PICK stale \in SUBSET Requests : recover_stale_model_reservations(stale)
    BY <1>4
  <2>2. /\ q \notin stale => request'[q] = request[q]
        /\ q \in stale => /\ request'[q].status = "pending_reconciliation"
                          /\ request[q].status = "reserved"
    BY <2>1 DEF recover_stale_model_reservations, TypeOK, RequestRow
  <2>3. QED
    BY <2>2
<1>5. CASE request' = request
  BY <1>5
<1>6. QED
  BY <1>1, <1>2, <1>3, <1>4, <1>5
  DEF Next, Finalizers, vars, Open, Rollback, ChangeAdmission, NextMonth,
      seed_prices, create_budget

LEMMA KeyInit == Init => KeyInv
  BY DEF Init, KeyInv, NoRequestRow

LEMMA KeyStep == TypeOK /\ HoldInv /\ KeyInv /\ [Next]_vars => KeyInv'
<1> SUFFICES ASSUME TypeOK, HoldInv, KeyInv, [Next]_vars, NEW q \in Requests, NEW r \in Requests,
                    request'[q].status # "absent", request'[r].status # "absent",
                    IdempotencyKey[q] = IdempotencyKey[r], IdempotencyKey[r] # NoKey
             PROVE  q = r
  BY DEF KeyInv
<1>1. CASE request[q].status # "absent" /\ request[r].status # "absent"
  BY <1>1 DEF KeyInv
<1>2. CASE request[q].status = "absent"
  BY <1>2, RowsAreKept DEF key_unused
<1>3. CASE request[r].status = "absent"
  BY <1>3, RowsAreKept DEF key_unused
<1>4. QED
  BY <1>1, <1>2, <1>3
=============================================================================
